---- MODULE Spec2Model ----
(***************************************************************************)
(* Clip discovery and download orchestration of twitch-clip-helper.        *)
(*                                                                         *)
(* Two orchestrators are modelled, each from its source:                   *)
(*   - process_request (src/downloader/processing.py), the single-account  *)
(*     run, with run_selenium_and_extract, create_directory_if_not_exists, *)
(*     check_downloader_dependencies and download_clip;                    *)
(*   - run_download_process (src/multiuser_download/                       *)
(*     multiple_twitch_downloader.py), the batch over the configured       *)
(*     accounts, with extract_clip_urls and download_clips_for_user, and   *)
(*     the start-up dependency probe of its __main__ block.                *)
(*                                                                         *)
(* The environment (browser, file system, downloader subprocess) is a      *)
(* nondeterministic choice of outcome at each external call.  A status     *)
(* event is a pair <<kind, tag>>; the sink keeps which event was emitted   *)
(* last and a tally of the error events and error dialogs.                 *)
(***************************************************************************)
EXTENDS Integers, Sequences, FiniteSets, Bags, TLC

\* ------------------------------------------------------------------ bounds
MaxFound == 2
MaxLimit == 1
MaxAccounts == 3
\* runs started in one session of a GUI application
MaxRuns == 2
\* status_callback calls made freely by one run
MaxEmits == 1
\* browser starts and downloader launches made by one run
MaxCalls == 2
\* lightbox attributes in one page, and distinct clip ids
MaxAttrs == 2
MaxClipIds == 2
\* progress lines of one download, and the largest percentage, in tenths
MaxLines == 3
MaxTenths == 20
\* characters of an account name given to the URL builder
MaxName == 2
MaxDownloads == 2
MaxPersists == 2
MaxEdits == 1

VARIABLES
    pc,                          \* position of the worker in the orchestrator
    username,                    \* account of the current run / iteration
    max_downloads,               \* configured limit of that account (0 = unlimited)
    user_data,                   \* batch: the ordered account list handed to the run
    idx,                         \* batch: position of the for loop over user_data
    clip_urls,                   \* result of the scrape (None or a list)
    urls_to_download,            \* list selected for download
    limit_applied,               \* process_request: limit_applied flag
    i,                           \* number of completed iterations of the download loop
    download_count,              \* download_count / downloaded_count
    fail_count,                  \* fail_count / failed_count
    total_downloaded_all_users,  \* batch: running total
    sink,                        \* status sink: [tally, last]
    obs,                         \* calls made to the external collaborators
    \* --- the GUI applications around the orchestrators
    app,                         \* "single" (downloader/) or "batch" (multiuser_download/)
    is_processing,               \* busy flag: is_processing / is_downloading
    tkq,                         \* Tk event queue: callbacks scheduled with after(0, ...)
    timers,                      \* pending after(100, ...) completion dialogs
    wk,                          \* worker threads, one per started run
    started,                     \* number of runs started
    status_text,                 \* status area: the messages inserted, in order
    gobs,                        \* what the threads did to the GUI
    \* --- the pure functions, applied to one input
    fin,                         \* the input
    fout                         \* the result

\* the orchestrator's variables
pvars == <<pc, username, max_downloads, user_data, idx, clip_urls,
           urls_to_download, limit_applied, i, download_count, fail_count,
           total_downloaded_all_users, sink, obs>>

\* the GUI applications' variables
gvars == <<app, is_processing, tkq, timers, wk, started, status_text, gobs>>

\* the function applications' variables
fvars == <<fin, fout>>

vars == <<pvars, gvars, fvars>>

\* ------------------------------------------------ idle values of the parts
\* a worker thread that has not been created
NoWorker ==
    [at |-> "unborn", emitted |-> 0, history_saved_flag |-> FALSE,
     hist |-> "never", persists |-> 0, calls |-> 0]

\* nothing has been done to the GUI yet.  Since the last start of a run:
\* busyWarned: a request was refused; workerDialog: a worker thread opened a
\* dialog itself; raised: the orchestrator was left by an exception.
\* liveBrowsers, liveProcs: browsers and downloader subprocesses now running
NoGuiCalls ==
    [busyWarned |-> FALSE, workerDialog |-> FALSE, raised |-> FALSE,
     liveBrowsers |-> 0, liveProcs |-> 0]

\* the GUI application right after construction: not busy, nothing scheduled
GuiFresh ==
    /\ is_processing = FALSE
    /\ tkq = <<>>
    /\ timers = 0
    /\ wk = [r \in 1..MaxRuns |-> NoWorker]
    /\ started = 0
    /\ status_text = <<>>
    /\ gobs = NoGuiCalls

\* no GUI application is considered
GuiParked == app = "none" /\ GuiFresh

\* no function application is considered
NoInput == [kind |-> "none"]
NoOutput == [kind |-> "none"]
FnParked == fin = NoInput /\ fout = NoOutput

\* ------------------------------------------------------------ value helpers
\* The scrape result: None (failed sentinel) or a list (possibly empty).
None == [ok |-> FALSE, urls |-> <<>>]
List(s) == [ok |-> TRUE, urls |-> s]

Min(a, b) == IF a < b THEN a ELSE b

\* the clip lists a page can show: its clips, named by their position on the
\* page, in page order
PageLists == {[k \in 1..n |-> k] : n \in 0..MaxFound}

\* variant: the last k are taken
Prefix_Tail(s, k) == SubSeq(s, Len(s) - Min(k, Len(s)) + 1, Len(s))

\* clip_urls[:k]
Prefix(s, k) == SubSeq(s, 1, Min(k, Len(s)))

\* order-preserving de-duplication (seen-set filter of extract_clip_urls_from_html)
RECURSIVE unique_urls(_)
unique_urls(s) ==
    IF s = <<>> THEN <<>>
    ELSE LET front == unique_urls(SubSeq(s, 1, Len(s) - 1))
             x == s[Len(s)]
         IN  IF \E k \in 1..Len(front) : front[k] = x THEN front ELSE Append(front, x)

\* ------------------------------------------------------------------ the sink
\* The sink remembers the event emitted last and tallies the events that ask
\* the user to act: those of severity error and the modal error dialogs.
NoEvent == <<"none", "none">>
EmptySink == [tally |-> EmptyBag, last |-> NoEvent]
Tallied == {"error", "dialog"}

\* status_callback(message, is_error, tag) / messagebox.showerror: one event
Emit(s, kind, tag) ==
    [tally |-> IF tag \in Tallied THEN s.tally (+) SetToBag({<<kind, tag>>}) ELSE s.tally,
     last |-> <<kind, tag>>]

RECURSIVE EmitAll(_, _)
EmitAll(s, evs) ==
    IF evs = <<>> THEN s
    ELSE EmitAll(Emit(s, Head(evs)[1], Head(evs)[2]), Tail(evs))

\* how many error events / dialogs of that kind were emitted
Count(kind) == CopiesIn(<<kind, "error">>, sink.tally) + CopiesIn(<<kind, "dialog">>, sink.tally)

\* -------------------------------------------------- external-call observation
\* dep: answer of the downloader probe; scrapes: scrapes started in the run;
\* history: history callbacks made in the run; toolMissing: a launch found no
\* executable; afterMissing: launches attempted after that; anyFailed: the
\* scrape of some account of the run returned None; succeeded: downloader
\* launches of the run that ended with return code 0.  For the account being
\* processed: launches: downloader launches attempted; mkdirs: directory
\* steps; dirFailed: the directory could not be created; scrapeFailed: the
\* browser failed in its scrape; limitMsg: the limit message was emitted;
\* attempted: the URLs the downloader was launched for, in order.  scrape:
\* what the browser did in the scrape that has just returned
NoScrape == [launched |-> FALSE, exit |-> "none", teardown |-> "none",
             raw |-> <<>>, marker |-> "none", result |-> None]

NoCalls == [dep |-> "unchecked", scrapes |-> 0, history |-> 0,
            toolMissing |-> FALSE, afterMissing |-> 0, anyFailed |-> FALSE,
            succeeded |-> 0,
            launches |-> 0, mkdirs |-> 0, dirFailed |-> FALSE,
            scrapeFailed |-> FALSE, limitMsg |-> FALSE, attempted |-> <<>>,
            scrape |-> NoScrape]

\* the next account: the observations of the current one start afresh
NextAccount(ob) ==
    [ob EXCEPT !.launches = 0, !.mkdirs = 0, !.dirFailed = FALSE,
               !.scrapeFailed = FALSE, !.limitMsg = FALSE, !.attempted = <<>>,
               !.scrape = NoScrape]

\* ===================================================================
\* Single-account orchestrator: src/downloader
\* ===================================================================

\* the date of the run (get_formatted_date), fixed for one run
date_str == "20250101"

\* construct_tracker_url: None (here <<>>) for an empty username, else the
\* template filled with the username once and the date twice
construct_tracker_url(u, d) ==
    IF u = "" THEN <<>> ELSE <<"https://twitchtracker.com/", u, "/clips#", d, "-", d>>

\* check_downloader_dependencies(status_callback) with the probe's answer
check_downloader_dependencies(s, found) ==
    IF ~found
    THEN EmitAll(s, << <<"checking_ytdlp", "info">>,
                       <<"ytdlp_not_found", "error">>,
                       <<"aborted_missing_dependency", "info">> >>)
    ELSE EmitAll(s, << <<"checking_ytdlp", "info">>,
                       <<"ytdlp_found", "success">> >>)

\* outcomes the browser can produce for one run_selenium_and_extract call;
\* raw is the list of regex matches of the markup the site serves
ScrapeInitFailures ==
    [init : {"fail", "fail_hint"}, nav : {"ok"}, wait : {"found"},
     raw : PageLists, marker : {"none"}, quit : {"skipped"},
     stop : {"skipped", "ok", "raises"}]

ScrapeNavFailures ==
    [init : {"ok"}, nav : {"timeout", "webdriver", "other"}, wait : {"found"},
     raw : PageLists, marker : {"none"}, quit : {"ok", "raises"},
     stop : {"ok", "raises"}]

ScrapeLoaded ==
    [init : {"ok"}, nav : {"ok"}, wait : {"found", "timeout"},
     raw : PageLists,
     marker : {"none", "channel_not_found", "no_clips_text"},
     quit : {"ok", "raises"}, stop : {"ok", "raises"}]

ScrapeOutcomes == ScrapeInitFailures \cup ScrapeNavFailures \cup ScrapeLoaded

\* the finally block of run_selenium_and_extract
TeardownEvents(o) ==
    (IF o.quit = "skipped" THEN <<>>
     ELSE IF o.quit = "raises"
          THEN << <<"closing_webdriver", "info">>, <<"error_closing_webdriver", "error">> >>
          ELSE << <<"closing_webdriver", "info">> >>)
    \o (IF o.stop = "raises" THEN << <<"cannot_stop_service", "error">> >> ELSE <<>>)

\* extract_clip_urls_from_html on markup whose regex matches are o.raw
extract_clip_urls_from_html(raw) == unique_urls(raw)

\* the browser failed: driver initialisation or navigation raised
BrowserFailed(o) == o.init # "ok" \/ o.nav # "ok"

\* variant: the browser error is swallowed and whatever loaded is parsed
ScrapeResult_ParseAnyway(o) == List(extract_clip_urls_from_html(o.raw))

\* variant: a timeout of the wait for the clip elements fails the scrape
ScrapeResult_WaitTimeoutFails(o) ==
    IF o.init # "ok" \/ o.nav # "ok" \/ o.wait = "timeout" THEN None
    ELSE List(extract_clip_urls_from_html(o.raw))

\* run_selenium_and_extract: the value returned
ScrapeResult(o) ==
    IF o.init # "ok" \/ o.nav # "ok" THEN None
    ELSE List(extract_clip_urls_from_html(o.raw))

\* variant: the text "Channel not found" is reported like a page without clips
MarkerEvents_NotFoundAsInfo(marker) ==
    IF marker = "none" THEN <<>> ELSE << <<"tracker_no_clips", "info">> >>

\* run_selenium_and_extract: what the texts found in the page source add to
\* the events
MarkerEvents(marker) ==
    IF marker = "channel_not_found" THEN << <<"channel_not_found", "error">> >>
    ELSE IF marker = "no_clips_text" THEN << <<"tracker_no_clips", "info">> >>
    ELSE <<>>

\* run_selenium_and_extract: the events reported, in order
ScrapeEvents(o) ==
    << <<"init_webdriver", "info">>, <<"setup_chromedriver", "info">> >>
    \o (IF o.init # "ok"
        THEN << <<"webdriver_init_error", "error">>, <<"ensure_chrome_installed", "error">> >>
             \o (IF o.init = "fail_hint" THEN << <<"webdriver_init_hint", "error">> >> ELSE <<>>)
        ELSE << <<"webdriver_ok", "success">>, <<"navigating", "info">> >>
             \o (IF o.nav \in {"timeout", "webdriver"}
                 THEN << <<"webdriver_error", "error">> >>
                 ELSE IF o.nav = "other" THEN << <<"unexpected_selenium_error", "error">> >>
                 ELSE << <<"waiting_clips", "info">> >>
                      \o (IF o.wait = "found"
                          THEN << <<"clips_loaded", "info">> >>
                          ELSE << <<"wait_timed_out", "warning">> >>)
                      \o << <<"extracting_source", "info">>, <<"parsing_html", "info">> >>
                      \o (IF extract_clip_urls_from_html(o.raw) = <<>>
                          THEN << <<"no_clip_urls", "warning">> >> ELSE <<>>)
                      \o MarkerEvents(o.marker)))
    \o TeardownEvents(o)

\* what the browser did in one run_selenium_and_extract call: whether a
\* browser was launched, the path taken through the try block, what became
\* of the finally block, the clips in the markup, the text of TwitchTracker
\* found in the page source, the value the try block returned
ScrapeSummary(o) ==
    [launched |-> o.init = "ok",
     exit |-> IF o.init # "ok" THEN "init_fail"
              ELSE IF o.nav = "timeout" THEN "nav_timeout"
              ELSE IF o.nav = "webdriver" THEN "nav_error"
              ELSE IF o.nav = "other" THEN "unexpected"
              ELSE IF o.wait = "timeout" THEN "wait_timeout"
              ELSE IF extract_clip_urls_from_html(o.raw) = <<>> THEN "zero"
              ELSE "success",
     teardown |-> IF o.quit = "raises" \/ o.stop = "raises" THEN "failed"
                  ELSE IF o.quit = "skipped" THEN "none" ELSE "ok",
     raw |-> o.raw,
     marker |-> o.marker,
     result |-> ScrapeResult(o)]

run_selenium_and_extract(s, o) ==
    [sink |-> EmitAll(s, ScrapeEvents(o)), result |-> ScrapeResult(o)]

\* outcomes of one downloader launch
DownloadOutcomes == {"ok", "failed", "notfound", "exception"}

\* download_clip: the events reported and the boolean returned
download_clip(s, o) ==
    [sink |-> EmitAll(s, << <<"downloading", "download">> >>
                         \o (IF o = "ok" THEN << <<"downloaded", "success">> >>
                             ELSE IF o = "failed" THEN << <<"ytdlp_failed", "error">> >>
                             ELSE IF o = "notfound" THEN << <<"command_not_found", "error">> >>
                             ELSE << <<"error_downloading", "error">> >>)),
     result |-> (o = "ok")]

\* variant: the list is walked from its end
enumerate_Reversed(list, k) == list[Len(list) - k]

\* for i, url in enumerate(urls_to_download): the URL of iteration k (from 0)
enumerate(list, k) == list[k + 1]

\* one more downloader launch, for that URL, observed
Launched(ob, o, url) ==
    [ob EXCEPT !.launches = @ + 1,
               !.attempted = Append(@, url),
               !.succeeded = IF o = "ok" THEN @ + 1 ELSE @,
               !.afterMissing = IF ob.toolMissing THEN @ + 1 ELSE @,
               !.toolMissing = @ \/ (o = "notfound")]

\* variant: the result of the check is ignored
PR_AfterDependencyCheck_Ignored(found) == "p_url"

\* process_request, lines 25-26: abort when the check returns false
PR_AfterDependencyCheck(found) == IF found THEN "p_url" ELSE "done"

\* process_request, lines 22-26: start message and dependency check
PR_CheckDependencies ==
    /\ pc = "p_entry"
    /\ \E found \in BOOLEAN :
         /\ sink' = check_downloader_dependencies(Emit(sink, "starting", "info"), found)
         /\ obs' = [obs EXCEPT !.dep = IF found THEN "found" ELSE "missing"]
         /\ pc' = PR_AfterDependencyCheck(found)
    /\ UNCHANGED <<username, max_downloads, user_data, idx, clip_urls,
                   urls_to_download, limit_applied, i, download_count,
                   fail_count, total_downloaded_all_users>>
    /\ UNCHANGED <<gvars, fvars>>

\* process_request, lines 28-34: URL construction
PR_ConstructUrl ==
    /\ pc = "p_url"
    /\ IF construct_tracker_url(username, date_str) = <<>>
       THEN /\ sink' = EmitAll(sink, << <<"invalid_username", "error">>,
                                        <<"process_aborted", "info">> >>)
            /\ pc' = "done"
       ELSE /\ sink' = Emit(sink, "constructed_url", "info")
            /\ pc' = "p_scrape"
    /\ UNCHANGED <<username, max_downloads, user_data, idx, clip_urls,
                   urls_to_download, limit_applied, i, download_count,
                   fail_count, total_downloaded_all_users, obs>>
    /\ UNCHANGED <<gvars, fvars>>

\* process_request, line 37: the scrape
PR_Scrape ==
    /\ pc = "p_scrape"
    /\ \E o \in ScrapeOutcomes :
         LET r == run_selenium_and_extract(sink, o)
         IN  /\ sink' = r.sink
             /\ clip_urls' = r.result
             /\ obs' = [obs EXCEPT !.scrapes = @ + 1,
                                   !.scrapeFailed = BrowserFailed(o),
                                   !.anyFailed = ~r.result.ok,
                                   !.scrape = ScrapeSummary(o)]
    /\ pc' = "p_scraped"
    /\ UNCHANGED <<username, max_downloads, user_data, idx, urls_to_download,
                   limit_applied, i, download_count, fail_count,
                   total_downloaded_all_users>>
    /\ UNCHANGED <<gvars, fvars>>

\* variant: the history callback is made before the None check
PR_ScrapeVerdict_HistoryFirst(cu) ==
    IF ~cu.ok
    THEN [next |-> "done", history |-> TRUE,
          evs |-> << <<"failed_to_retrieve", "error">>, <<"process_aborted", "info">> >>]
    ELSE IF cu.urls = <<>>
    THEN [next |-> "done", history |-> TRUE,
          evs |-> << <<"finished_no_clips", "info">> >>]
    ELSE [next |-> "p_limit", history |-> TRUE,
          evs |-> << <<"found_unique", "info">> >>]

\* variant: the empty list is not checked for
PR_ScrapeVerdict_NoEmptyCheck(cu) ==
    IF ~cu.ok
    THEN [next |-> "done", history |-> FALSE,
          evs |-> << <<"failed_to_retrieve", "error">>, <<"process_aborted", "info">> >>]
    ELSE [next |-> "p_limit", history |-> TRUE,
          evs |-> << <<"found_unique", "info">> >>]

\* process_request, lines 40-57: what follows the scrape: abort on None,
\* else the history callback, then finish on an empty list or go on
PR_ScrapeVerdict(cu) ==
    IF ~cu.ok
    THEN [next |-> "done", history |-> FALSE,
          evs |-> << <<"failed_to_retrieve", "error">>, <<"process_aborted", "info">> >>]
    ELSE IF cu.urls = <<>>
    THEN [next |-> "done", history |-> TRUE,
          evs |-> << <<"finished_no_clips", "info">> >>]
    ELSE [next |-> "p_limit", history |-> TRUE,
          evs |-> << <<"found_unique", "info">> >>]

PR_HandleScrapeResult ==
    /\ pc = "p_scraped"
    /\ LET v == PR_ScrapeVerdict(clip_urls)
       IN  /\ sink' = EmitAll(sink, v.evs)
           /\ obs' = [obs EXCEPT !.history = IF v.history THEN @ + 1 ELSE @,
                                 !.scrape = NoScrape]
           /\ pc' = v.next
    /\ UNCHANGED <<username, max_downloads, user_data, idx, clip_urls,
                   urls_to_download, limit_applied, i, download_count,
                   fail_count, total_downloaded_all_users>>
    /\ UNCHANGED <<gvars, fvars>>

\* variant: >= instead of >
LimitApplies_OffByOne(n, max) == max > 0 /\ n >= max

\* process_request, line 62: the limit applies
LimitApplies(n, max) == max > 0 /\ n > max

\* process_request, lines 59-68: the limit
PR_ApplyLimit ==
    /\ pc = "p_limit"
    /\ IF LimitApplies(Len(clip_urls.urls), max_downloads)
       THEN /\ urls_to_download' = Prefix(clip_urls.urls, max_downloads)
            /\ limit_applied' = TRUE
            /\ sink' = Emit(sink, "applying_limit", "warning")
            /\ obs' = [obs EXCEPT !.limitMsg = TRUE]
       ELSE /\ urls_to_download' = clip_urls.urls
            /\ limit_applied' = FALSE
            /\ sink' = sink
            /\ obs' = obs
    /\ pc' = "p_dir"
    /\ UNCHANGED <<username, max_downloads, user_data, idx, clip_urls, i,
                   download_count, fail_count, total_downloaded_all_users>>
    /\ UNCHANGED <<gvars, fvars>>

\* create_directory_if_not_exists with the file system's answer
create_directory_if_not_exists(s, fs) ==
    IF fs = "exists" THEN [sink |-> s, result |-> TRUE]
    ELSE IF fs = "created"
         THEN [sink |-> EmitAll(s, << <<"dir_missing", "info">>,
                                      <<"dir_created", "success">> >>),
               result |-> TRUE]
         ELSE [sink |-> EmitAll(s, << <<"dir_missing", "info">>,
                                      <<"dir_create_failed", "error">> >>),
               result |-> FALSE]

\* process_request, lines 70-80: output directory, loop set-up
PR_EnsureOutputDir ==
    /\ pc = "p_dir"
    /\ \E fs \in {"exists", "created", "oserror"} :
         LET r == create_directory_if_not_exists(sink, fs)
         IN  /\ obs' = [obs EXCEPT !.mkdirs = @ + 1, !.dirFailed = (fs = "oserror")]
             /\ IF ~r.result
                THEN /\ sink' = Emit(r.sink, "aborted_output_dir", "info")
                     /\ pc' = "done"
                     /\ UNCHANGED <<download_count, fail_count, i>>
                ELSE /\ sink' = EmitAll(r.sink, << <<"using_output_dir", "info">>,
                                                   <<"starting_download", "info">> >>)
                     /\ download_count' = 0
                     /\ fail_count' = 0
                     /\ i' = 0
                     /\ pc' = "p_loop"
    /\ UNCHANGED <<username, max_downloads, user_data, idx, clip_urls,
                   urls_to_download, limit_applied, total_downloaded_all_users>>
    /\ UNCHANGED <<gvars, fvars>>

\* variant: a failed download is not counted
PR_Tally_DropFailure(dc, fc, ok) ==
    IF ok THEN [d |-> dc + 1, f |-> fc] ELSE [d |-> dc, f |-> fc]

\* process_request, lines 86-89: the counters after one download_clip call
PR_Tally(dc, fc, ok) ==
    IF ok THEN [d |-> dc + 1, f |-> fc] ELSE [d |-> dc, f |-> fc + 1]

\* process_request, lines 82-89: one iteration of the download loop
PR_DownloadClip ==
    /\ pc = "p_loop"
    /\ i < Len(urls_to_download)
    /\ \E o \in DownloadOutcomes :
         LET r == download_clip(Emit(sink, "downloading_clip_i_of_n", "info"), o)
         IN  /\ sink' = r.sink
             /\ obs' = Launched(obs, o, enumerate(urls_to_download, i))
             /\ download_count' = PR_Tally(download_count, fail_count, r.result).d
             /\ fail_count' = PR_Tally(download_count, fail_count, r.result).f
    /\ i' = i + 1
    /\ pc' = "p_loop"
    /\ UNCHANGED <<username, max_downloads, user_data, idx, clip_urls,
                   urls_to_download, limit_applied, total_downloaded_all_users>>
    /\ UNCHANGED <<gvars, fvars>>

\* process_request, lines 92-109: final summary
PR_FinalSummary ==
    /\ pc = "p_loop"
    /\ i = Len(urls_to_download)
    /\ sink' = EmitAll(sink,
                 << <<"download_process_complete", "info">> >>
                 \o (IF limit_applied
                     THEN << <<"downloaded_n_limit_reached", "success">> >>
                     ELSE << <<"downloaded_n", "success">> >>)
                 \o (IF fail_count > 0 THEN << <<"failed_n", "warning">> >> ELSE <<>>)
                 \o << <<"process_finished", "info">> >>)
    /\ pc' = "done"
    /\ UNCHANGED <<username, max_downloads, user_data, idx, clip_urls,
                   urls_to_download, limit_applied, i, download_count,
                   fail_count, total_downloaded_all_users, obs>>
    /\ UNCHANGED <<gvars, fvars>>

\* ===================================================================
\* Batch orchestrator: src/multiuser_download/multiple_twitch_downloader.py
\* ===================================================================

\* outcomes the browser can produce for one extract_clip_urls call; raw is
\* the list of clip ids carried by the clip elements of the page
BatchScrapeOutcomes ==
    [kind : {"init_fail"}, raw : PageLists, quit : {"skipped"}]
    \cup [kind : {"webdriver"}, raw : PageLists, quit : {"ok", "raises"}]
    \cup [kind : {"nav_timeout", "timeout", "no_such_element", "other"},
          raw : {<<>>}, quit : {"ok", "raises"}]
    \cup [kind : {"ok"}, raw : PageLists, quit : {"ok", "raises"}]

\* the browser failed: driver set-up failed or a WebDriverException was raised
BatchBrowserFailed(o) == o.kind \in {"init_fail", "webdriver"}

\* extract_clip_urls: the value returned when the finally block completes
BatchScrapeResult(o) ==
    IF o.kind \in {"init_fail", "webdriver"} THEN None ELSE List(o.raw)

\* extract_clip_urls: the events reported, in order
BatchScrapeEvents(o) ==
    << <<"attempting_scrape", "plain">> >>
    \o (IF o.kind = "init_fail"
        THEN << <<"chromedriver_setup_failed", "plain">>, <<"webdriver_error", "dialog">> >>
        ELSE IF o.kind \in {"nav_timeout", "timeout"}
             THEN << <<"no_clips_or_timed_out", "plain">> >>
        ELSE IF o.kind = "no_such_element" THEN << <<"container_not_found", "plain">> >>
        ELSE IF o.kind = "webdriver" THEN << <<"selenium_error", "plain">> >>
        ELSE IF o.kind = "other" THEN << <<"unexpected_scrape_error", "plain">> >>
        ELSE << <<"found_elements", "plain">>, <<"extracted_n", "plain">> >>)

\* what the browser did in one extract_clip_urls call
BatchScrapeSummary(o) ==
    [launched |-> o.kind # "init_fail",
     exit |-> IF o.kind = "init_fail" THEN "init_fail"
              ELSE IF o.kind = "nav_timeout" THEN "nav_timeout"
              ELSE IF o.kind = "webdriver" THEN "nav_error"
              ELSE IF o.kind = "timeout" THEN "wait_timeout"
              ELSE IF o.kind \in {"no_such_element", "other"} THEN "unexpected"
              ELSE IF o.raw = <<>> THEN "zero"
              ELSE "success",
     teardown |-> IF o.quit = "raises" THEN "failed"
                  ELSE IF o.quit = "skipped" THEN "none" ELSE "ok",
     raw |-> o.raw,
     marker |-> "none",
     result |-> BatchScrapeResult(o)]

\* extract_clip_urls; raised: driver.quit() raised in the finally block, which
\* replaces the return by that exception
extract_clip_urls(s, o) ==
    [sink |-> EmitAll(s, BatchScrapeEvents(o)),
     result |-> BatchScrapeResult(o),
     raised |-> (o.quit = "raises")]

\* download_clips_for_user, lines 322-335: the list selected for download
\* (max_downloads is never None here: user_data.get supplies the default)
BatchSelect(urls, max) ==
    IF max > 0 /\ Len(urls) > max THEN Prefix(urls, max) ELSE urls

\* __main__, lines 1083-1110: the start-up probe of the downloader
B_MainCheck ==
    /\ pc = "b_main"
    /\ \E found \in BOOLEAN :
         IF found
         THEN /\ pc' = "b_entry"
              /\ sink' = sink
              /\ obs' = [obs EXCEPT !.dep = "found"]
         ELSE /\ pc' = "exited"
              /\ sink' = Emit(sink, "dependency_error", "dialog")
              /\ obs' = [obs EXCEPT !.dep = "missing"]
    /\ UNCHANGED <<username, max_downloads, user_data, idx, clip_urls,
                   urls_to_download, limit_applied, i, download_count,
                   fail_count, total_downloaded_all_users>>
    /\ UNCHANGED <<gvars, fvars>>

\* run_download_process, lines 455-467: start of the batch
B_Start ==
    /\ pc = "b_entry"
    /\ sink' = Emit(sink, "starting_batch", "plain")
    /\ total_downloaded_all_users' = 0
    /\ idx' = 1
    /\ pc' = "b_loop"
    /\ UNCHANGED <<username, max_downloads, user_data, clip_urls,
                   urls_to_download, limit_applied, i, download_count,
                   fail_count, obs>>
    /\ UNCHANGED <<gvars, fvars>>

\* run_download_process, lines 469-480: next account and its scrape
\* (the empty-username skip of lines 475-477 is kept; account lists never
\* hold an empty name)
B_NextUser ==
    /\ pc = "b_loop"
    /\ idx <= Len(user_data)
    /\ username' = user_data[idx].username
    /\ max_downloads' = user_data[idx].max_downloads
    /\ IF user_data[idx].username = ""
       THEN /\ idx' = idx + 1
            /\ pc' = "b_loop"
            /\ UNCHANGED <<clip_urls, sink, obs>>
       ELSE \E o \in BatchScrapeOutcomes :
              LET r == extract_clip_urls(Emit(sink, "processing_user", "plain"), o)
              IN  /\ sink' = r.sink
                  /\ clip_urls' = r.result
                  /\ obs' = [obs EXCEPT !.scrapes = @ + 1,
                                        !.scrapeFailed = BatchBrowserFailed(o),
                                        !.anyFailed = @ \/ (~r.result.ok /\ ~r.raised),
                                        !.scrape = BatchScrapeSummary(o)]
                  /\ pc' = IF r.raised THEN "raised" ELSE "b_scraped"
                  /\ idx' = idx
    /\ UNCHANGED <<user_data, urls_to_download, limit_applied, i,
                   download_count, fail_count, total_downloaded_all_users>>
    /\ UNCHANGED <<gvars, fvars>>

\* variant: a failed scrape breaks out of the loop over the accounts
B_ScrapeVerdict_FailedBreaks(cu) ==
    IF ~cu.ok
    THEN [next |-> "b_summary", evs |-> << <<"skipping_download", "plain">> >>]
    ELSE IF cu.urls = <<>>
    THEN [next |-> "b_loop", evs |-> << <<"no_clip_urls_to_download", "plain">> >>]
    ELSE [next |-> "b_dl", evs |-> <<>>]

\* run_download_process, lines 482-497 and download_clips_for_user, lines
\* 316-320: what follows the scrape: `continue` on None, return 0 on an empty
\* list (which also moves to the next account), else the download
B_ScrapeVerdict(cu) ==
    IF ~cu.ok
    THEN [next |-> "b_loop", evs |-> << <<"skipping_download", "plain">> >>]
    ELSE IF cu.urls = <<>>
    THEN [next |-> "b_loop", evs |-> << <<"no_clip_urls_to_download", "plain">> >>]
    ELSE [next |-> "b_dl", evs |-> <<>>]

\* run_download_process, lines 482-497 with download_clips_for_user,
\* lines 316-354: failed scrape, no clips, limit, directory, loop set-up.
\* The branch of lines 336-342 (nothing selected) cannot be taken: a non-empty
\* list cut to a positive limit is non-empty.  os.makedirs is not guarded: its
\* OSError leaves download_clips_for_user and run_download_process.
\* On the way to the next account the locals of the iteration are dead and
\* are cleared.
B_HandleScrapeResult ==
    /\ pc = "b_scraped"
    /\ LET v == B_ScrapeVerdict(clip_urls)
       IN  IF v.next # "b_dl"
           THEN /\ sink' = EmitAll(sink, v.evs)
                /\ idx' = IF v.next = "b_loop" THEN idx + 1 ELSE idx
                /\ pc' = v.next
                /\ clip_urls' = List(<<>>)
                /\ username' = ""
                /\ max_downloads' = 0
                /\ obs' = NextAccount(obs)
                /\ UNCHANGED <<urls_to_download, i, download_count, fail_count>>
           ELSE \E fs \in {"ok", "oserror"} :
                  LET sel == BatchSelect(clip_urls.urls, max_downloads)
                      limited == Len(sel) < Len(clip_urls.urls)
                      s1 == IF limited
                            THEN Emit(sink, "limiting_downloads", "plain") ELSE sink
                  IN  /\ urls_to_download' = sel
                      /\ obs' = [obs EXCEPT !.mkdirs = @ + 1, !.limitMsg = limited,
                                            !.dirFailed = (fs = "oserror"),
                                            !.scrape = NoScrape]
                      /\ idx' = idx
                      /\ UNCHANGED <<clip_urls, username, max_downloads>>
                      /\ IF fs = "oserror"
                         THEN /\ sink' = s1
                              /\ pc' = "raised"
                              /\ UNCHANGED <<i, download_count, fail_count>>
                         ELSE /\ sink' = Emit(s1, "downloading_n", "plain")
                              /\ download_count' = 0
                              /\ fail_count' = 0
                              /\ i' = 0
                              /\ pc' = "b_dl"
    /\ UNCHANGED <<user_data, limit_applied, total_downloaded_all_users>>
    /\ UNCHANGED <<gvars, fvars>>

\* variant: `continue` instead of `break`
B_AfterCritical_Continue(k) == [next |-> "b_loop", idx |-> k + 1]

\* run_download_process, lines 499-504: the -1 result breaks out of the loop
\* over the accounts
B_AfterCritical(k) == [next |-> "b_summary", idx |-> k]

\* download_clips_for_user, lines 356-446: one iteration of the download loop;
\* run_download_process, lines 499-504: abort of the batch on the -1 result
B_DownloadClip ==
    /\ pc = "b_dl"
    /\ i < Len(urls_to_download)
    /\ \E o \in DownloadOutcomes :
         /\ obs' = Launched(obs, o, enumerate(urls_to_download, i))
         /\ IF o = "notfound"
            THEN /\ sink' = EmitAll(sink, << <<"command_not_found", "plain">>,
                                             <<"ytdlp_error", "dialog">>,
                                             <<"aborting_batch", "plain">> >>)
                 /\ pc' = B_AfterCritical(idx).next
                 /\ idx' = B_AfterCritical(idx).idx
                 /\ UNCHANGED <<i, download_count, fail_count>>
            ELSE /\ pc' = "b_dl"
                 /\ idx' = idx
                 /\ i' = i + 1
                 /\ IF o = "ok"
                    THEN /\ download_count' = download_count + 1
                         /\ fail_count' = fail_count
                         /\ sink' = sink
                    ELSE /\ fail_count' = fail_count + 1
                         /\ download_count' = download_count
                         /\ sink' = Emit(sink, IF o = "failed" THEN "clip_failed"
                                               ELSE "clip_error", "plain")
    /\ UNCHANGED <<username, max_downloads, user_data, clip_urls,
                   urls_to_download, limit_applied, total_downloaded_all_users>>
    /\ UNCHANGED <<gvars, fvars>>

\* download_clips_for_user, lines 448-452: the account's summary and the
\* return of downloaded_count
B_UserFinished ==
    /\ pc = "b_dl"
    /\ i = Len(urls_to_download)
    /\ sink' = Emit(sink, "finished_downloads_for_user", "plain")
    /\ pc' = "b_returned"
    /\ UNCHANGED <<username, max_downloads, user_data, idx, clip_urls,
                   urls_to_download, limit_applied, i, download_count,
                   fail_count, total_downloaded_all_users, obs>>
    /\ UNCHANGED <<gvars, fvars>>

\* run_download_process, lines 506-507: the running total, then the next
\* iteration; the locals of this one are dead and are cleared
B_AddToTotal ==
    /\ pc = "b_returned"
    /\ total_downloaded_all_users' =
           IF download_count > 0 THEN total_downloaded_all_users + download_count
           ELSE total_downloaded_all_users
    /\ idx' = idx + 1
    /\ pc' = "b_loop"
    /\ clip_urls' = List(<<>>)
    /\ urls_to_download' = <<>>
    /\ username' = ""
    /\ max_downloads' = 0
    /\ i' = 0
    /\ download_count' = 0
    /\ fail_count' = 0
    /\ obs' = NextAccount(obs)
    /\ UNCHANGED <<user_data, limit_applied, sink>>
    /\ UNCHANGED <<gvars, fvars>>

\* run_download_process, lines 509-518: the aggregate summary
B_Summary ==
    /\ \/ pc = "b_loop" /\ idx > Len(user_data)
       \/ pc = "b_summary"
    /\ sink' = EmitAll(sink, << <<"batch_finished", "plain">>,
                                <<"total_clips_downloaded", "plain">>,
                                <<"total_time", "plain">> >>)
    /\ pc' = "done"
    /\ UNCHANGED <<username, max_downloads, user_data, idx, clip_urls,
                   urls_to_download, limit_applied, i, download_count,
                   fail_count, total_downloaded_all_users, obs>>
    /\ UNCHANGED <<gvars, fvars>>

\* ===================================================================
\* Initial states and the specification
\* ===================================================================

Names == <<"alice", "bob", "carol", "dave", "erin", "frank">>

\* account lists as load_user_data_from_file / handle_add leave them:
\* non-empty lower-case names, unique, sorted, non-negative limits
\* (the limits run through 0..MaxLimit along the list, from any start, so
\* that every limit occurs at every position)
UserLists ==
    {[k \in 1..n |-> [username |-> Names[k],
                      max_downloads |-> (k + off) % (MaxLimit + 1)]] :
        n \in 1..MaxAccounts, off \in 0..MaxLimit}

InitCommon ==
    /\ idx = 0
    /\ clip_urls = List(<<>>)
    /\ urls_to_download = <<>>
    /\ limit_applied = FALSE
    /\ i = 0
    /\ download_count = 0
    /\ fail_count = 0
    /\ total_downloaded_all_users = 0
    /\ sink = EmptySink
    /\ obs = NoCalls
    /\ GuiParked
    /\ FnParked

InitSingle ==
    /\ pc = "p_entry"
    /\ username \in {"", "alice"}
    /\ max_downloads \in 0..MaxLimit
    /\ user_data = <<>>
    /\ InitCommon

InitBatch ==
    /\ pc = "b_main"
    /\ username = ""
    /\ max_downloads = 0
    /\ user_data \in UserLists
    /\ InitCommon

Init == InitSingle \/ InitBatch

Next ==
    \/ PR_CheckDependencies
    \/ PR_ConstructUrl
    \/ PR_Scrape
    \/ PR_HandleScrapeResult
    \/ PR_ApplyLimit
    \/ PR_EnsureOutputDir
    \/ PR_DownloadClip
    \/ PR_FinalSummary
    \/ B_MainCheck
    \/ B_Start
    \/ B_NextUser
    \/ B_HandleScrapeResult
    \/ B_DownloadClip
    \/ B_UserFinished
    \/ B_AddToTotal
    \/ B_Summary

Spec == Init /\ [][Next]_vars

\* The worker thread runs the orchestrator to its end: every external call
\* (probe, scrape, directory, downloader) returns, and the thread is scheduled.
FairSpec == Spec /\ WF_vars(Next)

\* the run is a batch (start_download_thread refuses an empty account list)
InBatch == user_data # <<>>

\* ===================================================================
\* The GUI applications: busy guard, worker thread, Tk event queue
\* ===================================================================
\* A run is started by a handler on the GUI thread, which creates a worker
\* thread around the orchestrator.  The worker is followed call by call: each
\* step is one call it makes to a callback, to the browser or to the
\* downloader (the status line that reports a failed call is a status_callback
\* call of its own, a W_Status step).  Callbacks scheduled with after(0, ...) wait in the Tk event
\* queue and are executed by the GUI thread in turn.

\* the pvars while a GUI application is considered
ProgramParked ==
    /\ pc = "parked"
    /\ username = ""
    /\ max_downloads = 0
    /\ user_data = <<>>
    /\ idx = 0
    /\ clip_urls = List(<<>>)
    /\ urls_to_download = <<>>
    /\ limit_applied = FALSE
    /\ i = 0
    /\ download_count = 0
    /\ fail_count = 0
    /\ total_downloaded_all_users = 0
    /\ sink = EmptySink
    /\ obs = NoCalls

\* a scheduled callback: fn is "status" (_update_status_text_area /
\* update_status), "persist" (_persist_username) or "enable"
\* (set_ui_state(True) / on_download_complete); from is the thread that
\* scheduled it; n numbers the status messages of one thread within the run
Task(fn, from, run, n) == [fn |-> fn, from |-> from, run |-> run, n |-> n]

\* variant: the callback is put in front of the waiting ones
after_Front(q, task) == <<task>> \o q

\* master.after(0, callback, ...): the callback joins the end of the queue
after(q, task) == Append(q, task)

\* variant: the guard lets every request through
BusyGuard_Off(busy) == FALSE

\* start_processing, line 95 / start_download_thread, line 1016: the request
\* is refused
BusyGuard(busy) == busy

\* variant: every history callback schedules a persist call
SchedulesPersist_Always(flag) == TRUE

\* _run_processing_in_thread, line 296: the persist call is scheduled
SchedulesPersist(flag) == ~flag

\* variant: the downloader is started and not waited for
AfterPopen_NoWait(a) == "in"

\* download_clip, lines 60-97 / subprocess.run: the worker stays with the
\* subprocess until it has exited
AfterPopen(a) == "proc"

\* variant: the exception ends the thread
AfterException_ThreadDies(a) == "ended"

\* _run_processing_in_thread, lines 311-317 / run_download_wrapper, lines
\* 1061-1067: the exception is caught and the finally block follows
AfterException(a) == "returned"

\* the worker thread of run r is inside the orchestrator
Inside(r) == wk[r].at \in {"in", "browser", "proc"}

\* the worker thread of run r exists
Alive(r) == wk[r].at \in {"in", "browser", "proc", "returned"}

\* the worker of run r makes one status_callback call
WorkerEmits(q, w, r) == after(q, Task("status", "worker", r, w.emitted + 1))

\* start_processing (lines 93-138) / start_download_thread (lines 1014-1052);
\* the requests that fail validation or are not confirmed change nothing
G_Start ==
    /\ app \in {"single", "batch"}
    /\ IF BusyGuard(is_processing)
       THEN /\ gobs' = [gobs EXCEPT !.busyWarned = TRUE]
            /\ UNCHANGED <<is_processing, tkq, wk, started, status_text>>
       ELSE /\ started < MaxRuns
            /\ started' = started + 1
            /\ is_processing' = TRUE
            /\ wk' = [wk EXCEPT ![started + 1] = [NoWorker EXCEPT !.at = "in"]]
            /\ IF app = "single"
               THEN /\ status_text' = <<>>
                    /\ tkq' = after(after(tkq, Task("status", "gui", started + 1, 1)),
                                    Task("status", "gui", started + 1, 2))
               ELSE /\ status_text' = Append(status_text, <<"gui", started + 1, 1>>)
                    /\ tkq' = tkq
            /\ gobs' = [gobs EXCEPT !.busyWarned = FALSE, !.workerDialog = FALSE,
                                    !.raised = FALSE]
    /\ UNCHANGED <<app, timers>>
    /\ UNCHANGED <<pvars, fvars>>

\* the GUI thread executes the callback at the head of the queue:
\* _update_status_text_area (lines 250-259) / update_status (736-749),
\* _persist_username (261-280), set_ui_state (67-81) / on_download_complete
\* (1072-1078)
G_RunCallback ==
    /\ tkq # <<>>
    /\ LET task == Head(tkq)
       IN  CASE task.fn = "status" ->
                  /\ status_text' = Append(status_text, <<task.from, task.run, task.n>>)
                  /\ tkq' = Tail(tkq)
                  /\ is_processing' = is_processing
             [] task.fn = "persist" ->
                  /\ tkq' = after(Tail(tkq), Task("status", "gui", task.run, 3))
                  /\ UNCHANGED <<status_text, is_processing>>
             [] task.fn = "enable" ->
                  /\ is_processing' = FALSE
                  /\ tkq' = IF app = "batch"
                            THEN after(Tail(tkq), Task("status", "gui", task.run, 2))
                            ELSE Tail(tkq)
                  /\ status_text' = status_text
    /\ UNCHANGED <<app, timers, wk, started, gobs>>
    /\ UNCHANGED <<pvars, fvars>>

\* the completion dialog of _run_processing_in_thread, lines 320-325, is shown
G_CompleteDialog ==
    /\ timers > 0
    /\ timers' = timers - 1
    /\ UNCHANGED <<app, is_processing, tkq, wk, started, status_text, gobs>>
    /\ UNCHANGED <<pvars, fvars>>

\* the worker calls status_callback: update_status (lines 60-65) /
\* schedule_status_update (751-754)
W_Status(r) ==
    /\ Inside(r)
    /\ wk[r].emitted < MaxEmits
    /\ tkq' = WorkerEmits(tkq, wk[r], r)
    /\ wk' = [wk EXCEPT ![r].emitted = @ + 1]
    /\ UNCHANGED <<app, is_processing, timers, started, status_text, gobs>>
    /\ UNCHANGED <<pvars, fvars>>

\* the orchestrator calls history_callback_for_thread (lines 294-299)
W_History(r) ==
    /\ app = "single"
    /\ wk[r].at = "in"
    /\ wk[r].hist # "again"
    /\ IF SchedulesPersist(wk[r].history_saved_flag)
       THEN /\ tkq' = after(tkq, Task("persist", "worker", r, 0))
            /\ wk' = [wk EXCEPT ![r].history_saved_flag = TRUE,
                                ![r].persists = @ + 1,
                                ![r].hist = IF @ = "never" THEN "once" ELSE "again"]
       ELSE /\ tkq' = tkq
            /\ wk' = [wk EXCEPT ![r].hist = IF @ = "never" THEN "once" ELSE "again"]
    /\ UNCHANGED <<app, is_processing, timers, started, status_text, gobs>>
    /\ UNCHANGED <<pvars, fvars>>

\* the scraper starts the browser: web_scraper.py lines 53-56 /
\* extract_clip_urls lines 211-231 (which opens an error dialog itself, lines
\* 227-230, when the start fails)
W_OpenBrowser(r) ==
    /\ wk[r].at = "in"
    /\ wk[r].calls < MaxCalls
    /\ \E ok \in BOOLEAN :
         IF ok
         THEN /\ wk' = [wk EXCEPT ![r].at = "browser", ![r].calls = @ + 1]
              /\ gobs' = [gobs EXCEPT !.liveBrowsers = @ + 1]
              /\ tkq' = tkq
         ELSE /\ wk' = [wk EXCEPT ![r].calls = @ + 1]
              /\ tkq' = tkq
              /\ gobs' = IF app = "batch"
                         THEN [gobs EXCEPT !.workerDialog = TRUE]
                         ELSE gobs
    /\ UNCHANGED <<app, is_processing, timers, started, status_text>>
    /\ UNCHANGED <<pvars, fvars>>

\* the finally block of the scraper quits the browser: web_scraper.py lines
\* 179-187 (an error of quit() is reported and the scraper returns) /
\* extract_clip_urls lines 292-294 (an error of quit() leaves the orchestrator
\* and reaches the except block of run_download_wrapper).  The browser counts
\* as live until quit() has been called on it.
W_CloseBrowser(r) ==
    /\ wk[r].at = "browser"
    /\ \E quit \in {"ok", "raises"} :
         IF quit = "ok"
         THEN /\ wk' = [wk EXCEPT ![r].at = "in"]
              /\ tkq' = tkq
              /\ gobs' = [gobs EXCEPT !.liveBrowsers = @ - 1]
         ELSE IF app = "single"
              THEN /\ wk' = [wk EXCEPT ![r].at = "in"]
                   /\ tkq' = tkq
                   /\ gobs' = [gobs EXCEPT !.liveBrowsers = @ - 1]
              ELSE /\ wk' = [wk EXCEPT ![r].at = AfterException(app),
                                       ![r].emitted = @ + 1]
                   /\ tkq' = WorkerEmits(tkq, wk[r], r)
                   /\ gobs' = [gobs EXCEPT !.liveBrowsers = @ - 1,
                                           !.raised = TRUE]
    /\ UNCHANGED <<app, is_processing, timers, started, status_text>>
    /\ UNCHANGED <<pvars, fvars>>

\* the downloader is launched: download_clip lines 49-58 (FileNotFoundError:
\* lines 133-139) / download_clips_for_user lines 356-433 (FileNotFoundError:
\* an error dialog opened by the worker itself, lines 429-432)
W_Launch(r) ==
    /\ wk[r].at = "in"
    /\ wk[r].calls < MaxCalls
    /\ \E found \in BOOLEAN :
         IF found
         THEN /\ wk' = [wk EXCEPT ![r].at = AfterPopen(app), ![r].calls = @ + 1]
              /\ gobs' = [gobs EXCEPT !.liveProcs = @ + 1]
              /\ tkq' = tkq
         ELSE /\ wk' = [wk EXCEPT ![r].calls = @ + 1]
              /\ tkq' = tkq
              /\ gobs' = IF app = "batch"
                         THEN [gobs EXCEPT !.workerDialog = TRUE]
                         ELSE gobs
    /\ UNCHANGED <<app, is_processing, timers, started, status_text>>
    /\ UNCHANGED <<pvars, fvars>>

\* process.communicate() (download_clip lines 95-97) / subprocess.run returns:
\* the subprocess has exited
W_Reap(r) ==
    /\ wk[r].at = "proc"
    /\ wk' = [wk EXCEPT ![r].at = "in"]
    /\ gobs' = [gobs EXCEPT !.liveProcs = @ - 1]
    /\ UNCHANGED <<app, is_processing, tkq, timers, started, status_text>>
    /\ UNCHANGED <<pvars, fvars>>

\* the orchestrator returns
W_Return(r) ==
    /\ wk[r].at = "in"
    /\ wk' = [wk EXCEPT ![r].at = "returned"]
    /\ UNCHANGED <<app, is_processing, tkq, timers, started, status_text, gobs>>
    /\ UNCHANGED <<pvars, fvars>>

\* the orchestrator raises: the except block of _run_processing_in_thread
\* (lines 311-316, two error lines) / run_download_wrapper (1061-1066, one line)
W_Raise(r) ==
    /\ wk[r].at = "in"
    /\ wk' = [wk EXCEPT ![r].at = AfterException(app),
                        ![r].emitted = IF app = "single" THEN @ + 2 ELSE @ + 1]
    /\ tkq' = IF app = "single"
              THEN after(WorkerEmits(tkq, wk[r], r),
                         Task("status", "worker", r, wk[r].emitted + 2))
              ELSE WorkerEmits(tkq, wk[r], r)
    /\ gobs' = [gobs EXCEPT !.raised = TRUE]
    /\ UNCHANGED <<app, is_processing, timers, started, status_text>>
    /\ UNCHANGED <<pvars, fvars>>

\* the finally block: _run_processing_in_thread lines 317-325 /
\* run_download_wrapper lines 1067-1070; the thread ends
W_Finally(r) ==
    /\ wk[r].at = "returned"
    /\ tkq' = after(tkq, Task("enable", "worker", r, 0))
    /\ timers' = IF app = "single" THEN timers + 1 ELSE timers
    /\ wk' = [wk EXCEPT ![r] = [NoWorker EXCEPT !.at = "ended"]]
    /\ UNCHANGED <<app, is_processing, started, status_text, gobs>>
    /\ UNCHANGED <<pvars, fvars>>

\* one step of some worker thread
WorkerStep ==
    \E r \in 1..MaxRuns :
        \/ W_Status(r)
        \/ W_History(r)
        \/ W_OpenBrowser(r)
        \/ W_CloseBrowser(r)
        \/ W_Launch(r)
        \/ W_Reap(r)
        \/ W_Return(r)
        \/ W_Raise(r)
        \/ W_Finally(r)

\* one step of the GUI thread's event loop
GuiDrain == G_RunCallback \/ G_CompleteDialog

GuiInit ==
    /\ app \in {"single", "batch"}
    /\ GuiFresh
    /\ ProgramParked
    /\ FnParked

GuiNext ==
    \/ G_Start
    \/ G_RunCallback
    \/ G_CompleteDialog
    \/ \E r \in 1..MaxRuns : W_Status(r)
    \/ \E r \in 1..MaxRuns : W_History(r)
    \/ \E r \in 1..MaxRuns : W_OpenBrowser(r)
    \/ \E r \in 1..MaxRuns : W_CloseBrowser(r)
    \/ \E r \in 1..MaxRuns : W_Launch(r)
    \/ \E r \in 1..MaxRuns : W_Reap(r)
    \/ \E r \in 1..MaxRuns : W_Return(r)
    \/ \E r \in 1..MaxRuns : W_Raise(r)
    \/ \E r \in 1..MaxRuns : W_Finally(r)

GuiSpec == GuiInit /\ [][GuiNext]_vars

\* The worker thread is scheduled and each of its external calls returns; the
\* GUI thread keeps running its event loop.
GuiFairSpec == GuiSpec /\ WF_vars(WorkerStep) /\ WF_vars(GuiDrain)

\* ============================================================================
\* The pure functions, applied to one input
\* ============================================================================
\* The extractors, the classification of the downloader's exit and the
\* throttle of the progress lines are followed on their own: the input is
\* drawn at the start (the progress lines arrive one at a time) and each
\* action applies one function to it.

\* ---------------------------------------------------------------- the markup
\* A page is the sequence of its lightbox attributes, in document order. Of
\* an attribute data-litebox="...?<pre>clip=<id><post>" the model keeps the
\* clip id and whether other query parameters stand before and after clip=.
Attributes == [id : 1..MaxClipIds, pre : BOOLEAN, post : BOOLEAN]
Pages == UNION {[1..n -> Attributes] : n \in 0..MaxAttrs}

\* CLIP_URL_REGEX_PATTERN, data-litebox=".*?clip=([^"]+)": the lazy prefix
\* skips what stands before clip=, the group runs to the closing quote and
\* so takes the id together with the parameters that follow it
re_findall(html) ==
    [k \in 1..Len(html) |-> [id |-> html[k].id, rest |-> html[k].post]]

\* the batch pattern, clip=([^&"']+): the group stops at the next parameter
re_search(attr) == [id |-> attr.id, rest |-> FALSE]

\* TWITCH_CLIP_BASE_URL + the captured text (replace("&", "&") changes nothing)
full_clip_url(c) == <<"https://clips.twitch.tv/", c.id, c.rest>>

\* extract_clip_urls_from_html(html_content): the URLs of the matches, each kept once
single_extract(html) ==
    LET matches == re_findall(html)
    IN  extract_clip_urls_from_html([k \in 1..Len(matches) |-> full_clip_url(matches[k])])

\* extract_clip_urls, batch: one append per clip element, nothing filtered
batch_extract(html) ==
    [k \in 1..Len(html) |-> full_clip_url(re_search(html[k]))]

\* --------------------------------------------------- the downloader's exit
\* stderr is the set of the texts it contains; the empty set is an empty or
\* blank stderr.
StderrTexts == {"unable_webpage", "http_404", "interrupted", "socket_timeout",
                "video_unavailable", "other"}

\* variant: the timeout is looked for before the interruption
FailureReason_TimeoutFirst(stderr) ==
    IF "unable_webpage" \in stderr \/ "http_404" \in stderr THEN "unavailable"
    ELSE IF "socket_timeout" \in stderr THEN "network_timeout"
    ELSE IF "interrupted" \in stderr THEN "cancelled"
    ELSE IF "video_unavailable" \in stderr THEN "reported_unavailable"
    ELSE "none"

\* download_clip: the (Reason: ...) line added to the error message
FailureReason(stderr) ==
    IF "unable_webpage" \in stderr \/ "http_404" \in stderr THEN "unavailable"
    ELSE IF "interrupted" \in stderr THEN "cancelled"
    ELSE IF "socket_timeout" \in stderr THEN "network_timeout"
    ELSE IF "video_unavailable" \in stderr THEN "reported_unavailable"
    ELSE "none"

\* download_clip after process.communicate(): the value returned, the tag of
\* the status event, the reason and whether the Error Details are in it
DownloadOutcome(returncode, stderr) ==
    IF returncode = 0
    THEN [kind |-> "outcome", returned |-> TRUE, tag |-> "success",
          reason |-> "none", detail |-> FALSE]
    ELSE [kind |-> "outcome", returned |-> FALSE, tag |-> "error",
          reason |-> FailureReason(stderr), detail |-> stderr # {}]

\* ------------------------------------------------------- the progress lines
\* Percentages are written with one decimal and counted in tenths; the
\* values -1 (nothing reported yet) and -2 (fallback used) of
\* last_update_percent are -10 and -20.
Unset == -10
Fallback == -20
Unparseable == -1
Percents == 0..MaxTenths

\* float(percent_str) is the binary64 value nearest to d/10. One row per
\* binade of d/10 below 102.4: the least d of the binade, its spacing in
\* units of 2^-57, and 2^(52-E) modulo 10.
Binades == << <<640, 2048, 4>>, <<320, 1024, 8>>, <<160, 512, 6>>, <<80, 256, 2>>,
              <<40, 128, 4>>, <<20, 64, 8>>, <<10, 32, 6>>, <<5, 16, 2>>,
              <<3, 8, 4>>, <<2, 4, 8>>, <<1, 2, 6>> >>

Binade(d) ==
    IF d < 1 THEN <<0, 0, 0>>
    ELSE Binades[CHOOSE k \in 1..Len(Binades) :
                    /\ d >= Binades[k][1]
                    /\ \A j \in 1..(k - 1) : d < Binades[j][1]]

\* float(d/10) - d/10, in units of 2^-57 / 10
FloatErr(d) ==
    LET b == Binade(d)
        r == (d * b[3]) % 10
    IN  (IF r < 5 THEN 0 - r ELSE 10 - r) * b[2]

\* abs(float(a) - float(b)) >= 1.0 for two percentages: the difference of the
\* two floats is rounded to the nearest float, and below 1.0 these are 2^-53 apart
AbsDiffAtLeastOne(a, b) ==
    LET hi == IF a >= b THEN a ELSE b
        lo == IF a >= b THEN b ELSE a
    IN  \/ hi - lo >= 11
        \/ hi - lo = 10 /\ FloatErr(hi) - FloatErr(lo) >= 0 - 80

\* the condition of the report, for a line whose percentage is parsed
ReportsParsed(last, current) ==
    \/ last = Unset
    \/ last = Fallback                  \* abs(current + 2) >= 1.0
    \/ last >= 0 /\ AbsDiffAtLeastOne(current, last)

\* variant: a line that cannot be parsed is always shown
ReportsFallback_Always(last) == TRUE

\* the condition of the report, for a line whose percentage cannot be parsed
ReportsFallback(last) == last = Unset

\* ClipDownloadState(), with what the throttle did to the last line
NewDownload ==
    [kind |-> "progress", last_update_percent |-> Unset, lines |-> 0,
     before |-> Unset, line |-> Unparseable, reported |-> FALSE,
     parsedOnly |-> TRUE]

\* ------------------------------------------------------------ the tracker URL
\* Texts are sequences of characters.  An account name is any text of the
\* characters below, up to MaxName of them: letters, digits and underscore
\* stand for themselves, the others are characters with a meaning in a URL.
NameChars == {"a", "1", "_", "-", "/", "#", "?", " "}
NameTexts == UNION {[1..n -> NameChars] : n \in 0..MaxName}

\* dates as get_formatted_date writes them: YYYYMMDD
DateTexts == { <<"2", "0", "2", "5", "0", "1", "0", "1">>,
               <<"2", "0", "2", "4", "1", "2", "3", "1">> }

\* the fixed parts of TWITCHTRACKER_URL_TEMPLATE
TemplateSite ==
    <<"h", "t", "t", "p", "s", ":", "/", "/", "t", "w", "i", "t", "c", "h", "t",
      "r", "a", "c", "k", "e", "r", ".", "c", "o", "m", "/">>
TemplateClips == <<"/", "c", "l", "i", "p", "s", "#">>
TemplateDash == <<"-">>

\* variant: the date is written once
TWITCHTRACKER_URL_TEMPLATE_DateOnce(name, date) ==
    TemplateSite \o name \o TemplateClips \o date

\* TWITCHTRACKER_URL_TEMPLATE.format(username=..., date_str=...)
TWITCHTRACKER_URL_TEMPLATE(name, date) ==
    TemplateSite \o name \o TemplateClips \o date \o TemplateDash \o date

\* construct_tracker_url on texts: None (here <<>>) for `not username`
construct_tracker_url_text(name, date) ==
    IF name = <<>> THEN <<>> ELSE TWITCHTRACKER_URL_TEMPLATE(name, date)

\* ------------------------------------------------------------------ actions
\* construct_tracker_url applied to the account and the date
F_ConstructUrl ==
    /\ fin.kind = "url"
    /\ fout.kind = "none"
    /\ fout' = [kind |-> "tracker_url",
                url |-> construct_tracker_url_text(fin.username, fin.date_str)]
    /\ UNCHANGED <<fin, pvars, gvars>>

\* The captured text, character by character.  In the markup the parameter
\* that follows the clip id is separated from it by an escaped ampersand.
ClipIdTexts == <<"A", "B", "C", "D">>
EscapedAmpersand == <<"&", "a", "m", "p", ";">>
captured_text(c) ==
    <<ClipIdTexts[c.id]>> \o (IF c.rest THEN EscapedAmpersand \o <<"t">> ELSE <<>>)

\* str.replace(old, new) for one character old
str_replace(text, old, new) ==
    [k \in 1..Len(text) |-> IF text[k] = old THEN new ELSE text[k]]

\* TWITCH_CLIP_BASE_URL + clip_id.replace("&", "&"), as a text
full_clip_url_text(c) ==
    <<"https://clips.twitch.tv/">> \o str_replace(captured_text(c), "&", "&")

\* extract_clip_urls_from_html applied to the page
F_ExtractSingle ==
    /\ fin.kind = "html"
    /\ fout.kind = "none"
    /\ LET urls == single_extract(fin.html)
       IN  fout' = [kind |-> "single_urls", urls |-> urls,
                    texts |-> [k \in 1..Len(urls) |->
                                  full_clip_url_text([id |-> urls[k][2],
                                                      rest |-> urls[k][3]])]]
    /\ UNCHANGED <<fin, pvars, gvars>>

\* the batch extract_clip_urls applied to the page
F_ExtractBatch ==
    /\ fin.kind = "html"
    /\ fout.kind = "none"
    /\ fout' = [kind |-> "batch_urls", urls |-> batch_extract(fin.html)]
    /\ UNCHANGED <<fin, pvars, gvars>>

\* the downloader exited
F_DownloadOutcome ==
    /\ fin.kind = "exit"
    /\ fout.kind = "none"
    /\ fout' = DownloadOutcome(fin.returncode, fin.stderr)
    /\ UNCHANGED <<fin, pvars, gvars>>

\* one progress line read from the downloader's stdout
F_ProgressLine ==
    /\ fin.kind = "progress"
    /\ fout.lines < MaxLines
    /\ \E p \in Percents \cup {Unparseable} :
          LET last == fout.last_update_percent
              rep == IF p = Unparseable THEN ReportsFallback(last)
                     ELSE ReportsParsed(last, p)
          IN  fout' = [kind |-> "progress",
                       last_update_percent |->
                           IF ~rep THEN last
                           ELSE IF p = Unparseable THEN Fallback ELSE p,
                       lines |-> fout.lines + 1,
                       before |-> last,
                       line |-> p,
                       reported |-> rep,
                       parsedOnly |-> fout.parsedOnly /\ p # Unparseable]
    /\ UNCHANGED <<fin, pvars, gvars>>

FnInputs ==
    {[kind |-> "html", html |-> h] : h \in Pages}
    \cup {[kind |-> "exit", returncode |-> rc, stderr |-> e] :
             rc \in {0, 1}, e \in SUBSET StderrTexts}
    \cup {[kind |-> "progress"]}
    \cup {[kind |-> "url", username |-> u, date_str |-> d] :
             u \in NameTexts, d \in DateTexts}

FnInit ==
    /\ ProgramParked
    /\ GuiParked
    /\ fin \in FnInputs
    /\ fout = IF fin.kind = "progress" THEN NewDownload ELSE NoOutput

FnNext ==
    \/ F_ExtractSingle
    \/ F_ExtractBatch
    \/ F_DownloadOutcome
    \/ F_ProgressLine
    \/ F_ConstructUrl

FnSpec == FnInit /\ [][FnNext]_vars

\* ============================================================================
\* The account list of the batch application: add, edit, delete
\* ============================================================================
\* self.user_data is followed through the three handlers of the list.  Every
\* handler that changes the list also writes it to the file with
\* save_user_data_to_file, which works on a copy and leaves self.user_data as
\* it is.  fin holds what the user entered, fout what the handler did.

\* the names of the pool as the user may type them, with a capital
UpperNames == <<"Alice", "Bob", "Carol", "Dave", "Erin", "Frank">>
Pool == 1..MaxAccounts

\* what can be typed into a name field: nothing, a text that is not a Twitch
\* name, or a name of the pool in either case
TypedNames == {"", "a b"} \cup {Names[k] : k \in Pool} \cup {UpperNames[k] : k \in Pool}

\* what can be typed into the limit field of the add form
Digits == <<"0", "1", "2", "3", "4">>
TypedLimits == {"", "-1", "x"} \cup {Digits[v + 1] : v \in 0..MaxLimit}

\* str.lower() on a name
str_lower(n) ==
    IF \E k \in 1..Len(UpperNames) : UpperNames[k] = n
    THEN Names[CHOOSE k \in 1..Len(UpperNames) : UpperNames[k] = n]
    ELSE n

\* re.match(r"^[a-zA-Z0-9_]{3,25}$", name)
re_match_username(n) ==
    \E k \in 1..Len(Names) : n = Names[k] \/ n = UpperNames[k]

\* int(max_downloads_str): the value of a number; a text that raises
\* ValueError is refused by handle_add like a negative number and gets -1
int_of(t) ==
    IF \E v \in 1..Len(Digits) : Digits[v] = t
    THEN (CHOOSE v \in 1..Len(Digits) : Digits[v] = t) - 1
    ELSE -1

\* the order of two names as Python compares strings: capitals come first
SortKey(n) ==
    IF \E k \in 1..Len(UpperNames) : UpperNames[k] = n
    THEN CHOOSE k \in 1..Len(UpperNames) : UpperNames[k] = n
    ELSE Len(UpperNames) + (CHOOSE k \in 1..Len(Names) : Names[k] = n)

\* list.sort(key=lambda x: x["username"]): stable, by insertion
RECURSIVE sort_by_username(_)
sort_by_username(s) ==
    IF s = <<>> THEN <<>>
    ELSE LET front == sort_by_username(SubSeq(s, 1, Len(s) - 1))
             x == s[Len(s)]
             k == Cardinality({j \in 1..Len(front) :
                                  SortKey(front[j].username) <= SortKey(x.username)})
         IN  SubSeq(front, 1, k) \o <<x>> \o SubSeq(front, k + 1, Len(front))

\* variant: no name is taken for a duplicate
already_exists_Never(list, n) == FALSE

\* any(u["username"] == new_username for u in self.user_data)
already_exists(list, n) == \E k \in 1..Len(list) : list[k].username = n

\* the names of the list, as the tree view shows them
ListedNames(list) == {list[k].username : k \in 1..Len(list)}

\* load_user_data_from_file: lower-case names, each once, limits not
\* negative, sorted by name
LoadedLists ==
    UNION {{sort_by_username(
               [j \in 1..Cardinality(S) |->
                   LET k == CHOOSE m \in S : Cardinality({q \in S : q < m}) = j - 1
                   IN  [username |-> Names[k], max_downloads |-> f[k]]]) :
            f \in [S -> 0..MaxLimit]} : S \in SUBSET Pool}

\* the pvars other than the list
EditFrame ==
    <<pc, username, max_downloads, idx, clip_urls, urls_to_download,
      limit_applied, i, download_count, fail_count,
      total_downloaded_all_users, sink, obs>>

\* handle_add
handle_add ==
    /\ pc = "editing"
    /\ \E typed \in TypedNames, limit \in TypedLimits :
          LET new_username == str_lower(typed)
              max == IF limit = "" THEN 0 ELSE int_of(limit)
              refused ==
                  IF new_username = "" THEN "empty"
                  ELSE IF ~re_match_username(new_username) THEN "format"
                  ELSE IF max < 0 THEN "limit"
                  ELSE IF already_exists(user_data, new_username) THEN "duplicate"
                  ELSE "no"
          IN  /\ fin' = [kind |-> "add", typed |-> typed, limit |-> limit]
              /\ fout' = [kind |-> "add", refused |-> refused]
              /\ user_data' =
                     IF refused = "no"
                     THEN sort_by_username(
                              Append(user_data, [username |-> new_username,
                                                 max_downloads |-> max]))
                     ELSE user_data
    /\ UNCHANGED <<EditFrame, gvars>>

\* handle_edit_selected: the selection, then the two dialogs (a cancelled
\* dialog yields no value, and the dialogs after it are not opened)
handle_edit_selected ==
    /\ pc = "editing"
    /\ \E sel \in SUBSET ListedNames(user_data) :
          IF Cardinality(sel) # 1
          THEN /\ fin' = [kind |-> "edit", selected |-> Cardinality(sel)]
               /\ fout' = [kind |-> "edit", refused |-> "selection"]
               /\ user_data' = user_data
          ELSE \E cancel1 \in BOOLEAN :
               \E typed \in (IF cancel1 THEN {""} ELSE TypedNames) :
               \E cancel2 \in (IF cancel1 THEN {FALSE} ELSE BOOLEAN) :
               \E new_max_downloads \in (IF cancel1 \/ cancel2 THEN {0} ELSE 0..MaxLimit) :
                 LET old_username == CHOOSE n \in sel : TRUE
                     at == CHOOSE k \in 1..Len(user_data) :
                               user_data[k].username = old_username
                     new_username == str_lower(typed)
                     username_changed == new_username # old_username
                     refused ==
                         IF cancel1 THEN "cancelled"
                         ELSE IF new_username = "" THEN "empty"
                         ELSE IF ~re_match_username(new_username) THEN "format"
                         ELSE IF username_changed /\ already_exists(user_data, new_username)
                              THEN "duplicate"
                         ELSE IF cancel2 THEN "cancelled"
                         ELSE IF ~username_changed
                                 /\ new_max_downloads = user_data[at].max_downloads
                              THEN "unchanged"
                         ELSE "no"
                     edited == [user_data EXCEPT
                                   ![at] = [username |-> new_username,
                                            max_downloads |-> new_max_downloads]]
                 IN  /\ fin' = [kind |-> "edit", selected |-> 1]
                     /\ fout' = [kind |-> "edit", refused |-> refused]
                     /\ user_data' =
                            IF refused # "no" THEN user_data
                            ELSE IF username_changed THEN sort_by_username(edited)
                            ELSE edited
    /\ UNCHANGED <<EditFrame, gvars>>

\* handle_delete_selected: the selection, then the confirmation
handle_delete_selected ==
    /\ pc = "editing"
    /\ \E sel \in SUBSET ListedNames(user_data), confirm \in BOOLEAN :
          LET refused == IF sel = {} THEN "selection"
                         ELSE IF ~confirm THEN "cancelled" ELSE "no"
          IN  /\ fin' = [kind |-> "delete", selected |-> Cardinality(sel)]
              /\ fout' = [kind |-> "delete", refused |-> refused]
              /\ user_data' =
                     IF refused = "no"
                     THEN SelectSeq(user_data, LAMBDA u : u.username \notin sel)
                     ELSE user_data
    /\ UNCHANGED <<EditFrame, gvars>>

\* load_initial_data, at the end of __init__
EditInit ==
    /\ pc = "editing"
    /\ user_data \in LoadedLists
    /\ username = ""
    /\ max_downloads = 0
    /\ InitCommon

EditNext ==
    \/ handle_add
    \/ handle_edit_selected
    \/ handle_delete_selected

EditSpec == EditInit /\ [][EditNext]_vars

\* ===================================================================
\* Claims
\* ===================================================================

\* the orchestrator has returned, raised, or the program has exited at start-up
Ended == pc \in {"done", "raised", "exited"}

\* C1: once a downloader launch found no executable, no further clip
\* download is attempted in that run (process_request and the batch alike).
C1_NoLaunchAfterToolMissing == obs.afterMissing = 0

\* C2: when the downloader-availability check returns false, no scrape and no
\* download is made, the run is over, and exactly one error event, the
\* dependency-missing one, has been reported.
C2_DependencyMissingStopsAll ==
    obs.dep = "missing" =>
        /\ obs.scrapes = 0
        /\ obs.launches = 0
        /\ obs.history = 0
        /\ obs.mkdirs = 0
        /\ Ended
        /\ Count("ytdlp_not_found") + Count("dependency_error") = 1
        /\ BagCardinality(sink.tally) = 1

C2_Witness ==
    /\ obs.dep = "missing"
    /\ pc = "done"
    /\ sink.last = <<"aborted_missing_dependency", "info">>
    /\ Count("ytdlp_not_found") = 1

\* C3: in a batch, once an account's download loop has returned the fatal
\* tool-missing signal, no later account is scraped or downloaded; the step
\* that takes the signal reports the abort reason; and the aggregate summary
\* is emitted afterwards, ending the run.
C3_BatchAbortOnToolMissing ==
    /\ [][(InBatch /\ obs.toolMissing) =>
            (obs'.scrapes = obs.scrapes /\ obs'.launches = obs.launches
             /\ obs'.mkdirs = obs.mkdirs /\ idx' = idx
             /\ sink'.last[1] \in {"batch_finished", "total_clips_downloaded", "total_time"})]_vars
    /\ [][(InBatch /\ ~obs.toolMissing /\ obs'.toolMissing) =>
            (sink'.last = <<"aborting_batch", "plain">> /\ Count("ytdlp_error")' = 1)]_vars
    /\ ((InBatch /\ obs.toolMissing) ~>
            (pc = "done" /\ sink.last = <<"total_time", "plain">>))

C3_Witness ==
    /\ InBatch
    /\ obs.toolMissing
    /\ pc = "done"
    /\ idx = 2
    /\ Len(user_data) = 3
    /\ obs.scrapes = 2
    /\ total_downloaded_all_users > 0

\* C4: a downloader launch happens only for an account whose scrape
\* returned a list and whose browser did not fail; an account whose scrape
\* failed (browser failure, sentinel None) gets no launch.
C4_NoDownloadAfterFailedScrape ==
    /\ []((~clip_urls.ok \/ obs.scrapeFailed) => (~clip_urls.ok /\ obs.launches = 0))
    /\ [][obs'.launches > obs.launches => (clip_urls.ok /\ ~obs.scrapeFailed)]_vars

C4_Witness ==
    /\ InBatch
    /\ obs.anyFailed
    /\ obs.launches > 0
    /\ idx = 2

\* C5: in process_request the history callback is made exactly when the
\* scrape returned a list (never after a failed scrape, a missing dependency
\* or an invalid username), at most once, and at the moment it is made the
\* limit has not been applied, the directory step has not run and no download
\* has started; it stays recorded when a later step aborts.
C5_HistoryAfterSuccessfulScrape ==
    /\ [](~InBatch =>
            /\ obs.history <= 1
            /\ (obs.history = 1 => (obs.scrapes = 1 /\ clip_urls.ok /\ ~obs.scrapeFailed))
            /\ (pc \in {"p_limit", "p_dir", "p_loop"} => obs.history = 1)
            /\ (pc = "done" => (obs.history = 1 <=> (obs.scrapes = 1 /\ clip_urls.ok))))
    /\ [][obs'.history > obs.history =>
            (/\ pc = "p_scraped"
             /\ urls_to_download = <<>>
             /\ ~limit_applied
             /\ ~obs.limitMsg
             /\ obs.mkdirs = 0
             /\ obs.launches = 0)]_vars

C5_Witness ==
    /\ pc = "done"
    /\ sink.last[1] = "aborted_output_dir"
    /\ obs.history = 1

\* number of clips selected out of n discovered under the limit max
SelectedCount(n, max) == IF max > 0 THEN Min(n, max) ELSE n

\* the account's summary has just been emitted
SummaryEmitted == sink.last[1] \in {"process_finished", "finished_downloads_for_user"}

\* C6: once the list for download is selected, its length is n for max = 0
\* and min(n, max) for max > 0 (never more than a positive max), the limit
\* flag and the limit message are set exactly when max > 0 and n > max, and
\* the launches attempted never exceed that length and equal it at the summary.
C6_LimitRule ==
    (pc = "p_dir" \/ obs.mkdirs > 0) =>
        LET n == Len(clip_urls.urls)
            max == max_downloads
        IN  /\ Len(urls_to_download) = SelectedCount(n, max)
            /\ (max = 0 => Len(urls_to_download) = n)
            /\ (max > 0 => Len(urls_to_download) <= max)
            /\ (obs.limitMsg <=> (max > 0 /\ n > max))
            /\ (~InBatch => (limit_applied <=> (max > 0 /\ n > max)))
            /\ obs.launches <= Len(urls_to_download)
            /\ (SummaryEmitted => obs.launches = Len(urls_to_download))

C6_Witness ==
    /\ ~InBatch
    /\ limit_applied
    /\ SummaryEmitted
    /\ Len(clip_urls.urls) = 2
    /\ max_downloads = 1
    /\ obs.launches = 1

\* C7: after i iterations of the download loop download_count + fail_count =
\* i, and when an account's summary is emitted download_count + fail_count is
\* the number of clips selected: min(n, max) for max > 0, n for max = 0.
C7_CountsAddUp ==
    /\ (pc \in {"p_loop", "b_dl", "b_returned"} => download_count + fail_count = i)
    /\ (SummaryEmitted =>
            /\ i = Len(urls_to_download)
            /\ download_count + fail_count =
                   SelectedCount(Len(clip_urls.urls), max_downloads))

C7_Witness ==
    /\ ~InBatch
    /\ SummaryEmitted
    /\ download_count = 1
    /\ fail_count = 1

\* C8: after a scrape that returned the empty list, process_request ends
\* with the 'finished, no clips' event of severity info, reports no error,
\* launches no downloader and does not reach the directory step; in the batch
\* the account adds nothing to the total, nothing is launched and the loop
\* moves on to the next account.
C8_ZeroClips ==
    /\ []((~InBatch /\ pc = "done" /\ obs.scrapes = 1 /\ clip_urls = List(<<>>)) =>
            (/\ sink.last = <<"finished_no_clips", "info">>
             /\ obs.launches = 0
             /\ obs.mkdirs = 0))
    /\ [][(pc = "p_scraped" /\ clip_urls = List(<<>>)) =>
            (/\ pc' = "done"
             /\ sink'.last = <<"finished_no_clips", "info">>
             /\ sink'.tally = sink.tally)]_vars
    /\ [][(pc = "b_scraped" /\ clip_urls = List(<<>>)) =>
            (/\ pc' = "b_loop"
             /\ idx' = idx + 1
             /\ total_downloaded_all_users' = total_downloaded_all_users
             /\ sink'.last = <<"no_clip_urls_to_download", "plain">>
             /\ sink'.tally = sink.tally
             /\ obs.launches = 0 /\ obs'.launches = 0
             /\ obs.mkdirs = 0 /\ obs'.mkdirs = 0)]_vars

C8_Witness ==
    /\ ~InBatch
    /\ pc = "done"
    /\ obs.scrapes = 1
    /\ clip_urls = List(<<>>)
    /\ sink.last = <<"finished_no_clips", "info">>

\* C9 (as stated): when the batch has returned and the scrape of some account
\* returned the failed sentinel, every account of the list has been scraped.
C9_EveryRemainingAccountScraped ==
    (InBatch /\ pc = "done" /\ obs.anyFailed) => obs.scrapes = Len(user_data)

\* C9 (amended): a failed scrape does not end the batch: the loop moves on to
\* the next account, which is scraped next, in list order; when the batch
\* returns with accounts left unscraped, a download loop has returned the fatal
\* tool-missing signal.
C9_FailedScrapeNotBatchFatal ==
    /\ [][(pc = "b_scraped" /\ ~clip_urls.ok) =>
            (pc' = "b_loop" /\ idx' = idx + 1 /\ ~obs'.toolMissing)]_vars
    /\ [][(pc = "b_loop" /\ idx <= Len(user_data)) =>
            (/\ obs'.scrapes = obs.scrapes + 1
             /\ username' = user_data[idx].username
             /\ idx' = idx)]_vars
    /\ []((InBatch /\ pc = "done" /\ obs.scrapes < Len(user_data)) => obs.toolMissing)
    /\ \A k \in 1..MaxAccounts :
          (pc = "b_scraped" /\ ~clip_urls.ok /\ idx = k /\ k < Len(user_data))
              ~> (obs.scrapes = k + 1)

C9_Witness ==
    /\ InBatch
    /\ obs.anyFailed
    /\ pc = "b_scraped"
    /\ idx = 2
    /\ obs.scrapes = 2
    /\ clip_urls.ok

\* the terminal events of the two orchestrators
TerminalKinds ==
    {"aborted_missing_dependency", "process_aborted", "finished_no_clips",
     "aborted_output_dir", "process_finished", "total_time"}

\* C10: when the orchestrator is left, by return or by exception, the last
\* status event it emitted is a terminal 'finished' or 'aborted' event.
C10_TerminalEventLast ==
    pc \in {"done", "raised"} => sink.last[1] \in TerminalKinds

\* the runs whose worker thread exists
AliveRuns == {r \in 1..MaxRuns : Alive(r)}

\* C11: the busy guard gives mutual exclusion of runs: at most one worker
\* thread exists at a time, it exists only while the busy flag is true, a run
\* is started only when the flag is false, and a start request refused because
\* the flag is true starts nothing and schedules nothing.
C11_BusyGuardMutualExclusion ==
    /\ [](Cardinality(AliveRuns) <= 1)
    /\ [](AliveRuns # {} => is_processing)
    /\ [][started' # started => (~is_processing /\ is_processing')]_vars
    /\ [][(is_processing /\ gobs'.busyWarned /\ ~gobs.busyWarned) =>
            UNCHANGED <<is_processing, tkq, timers, wk, started, status_text>>]_vars

C11_Witness ==
    /\ started = 2
    /\ Inside(2)
    /\ wk[1].at = "ended"
    /\ gobs.busyWarned

\* C12: every started run eventually releases the busy guard, also when the
\* orchestrator raises: whenever the flag is true, it eventually is false with
\* no worker thread left (the worker is scheduled, its external calls return
\* and the GUI thread keeps running its queue).
C12_BusyGuardReleased ==
    is_processing ~> (~is_processing /\ AliveRuns = {})

C12_Witness ==
    /\ gobs.raised
    /\ started >= 1
    /\ wk[started].at = "ended"
    /\ ~is_processing

C14_PersistAtMostOncePerRun ==
    \A r \in 1..MaxRuns :
        /\ wk[r].persists <= 1
        /\ Cardinality({k \in 1..Len(tkq) :
                           tkq[k].fn = "persist" /\ tkq[k].run = r}) <= 1
        /\ (wk[r].hist # "never" => wk[r].persists = 1)

C14_Witness ==
    \E r \in 1..MaxRuns : wk[r].hist = "again" /\ wk[r].persists = 1

\* C15: the worker thread never touches the GUI itself: it opens no dialog
\* from its own thread.
C15_WorkerNeverTouchesGui == ~gobs.workerDialog

\* C16: the status messages of a worker are inserted into the status area in
\* the order in which the worker emitted them, none missing: the k-th message
\* of a run's worker found in the status area is the k-th it emitted.
C16_StatusInEmissionOrder ==
    \A j \in 1..Len(status_text) :
        status_text[j][1] = "worker" =>
            status_text[j][3] =
                1 + Cardinality({k \in 1..(j - 1) :
                                    /\ status_text[k][1] = "worker"
                                    /\ status_text[k][2] = status_text[j][2]})

C16_Witness ==
    \E j \in 1..Len(status_text) :
        /\ status_text[j][1] = "worker"
        /\ status_text[j][3] = 3

\* C17: for every page, the list of clip URLs a scrape hands to the
\* downloader has no duplicates and is the list of the raw matches with each
\* URL kept at its first occurrence, in the single-account scraper and in the
\* batch scraper.
C17_ExtractDedupesInBothScrapers ==
    fout.kind \in {"single_urls", "batch_urls"} =>
        LET raw == IF fout.kind = "single_urls"
                   THEN [k \in 1..Len(fin.html) |-> full_clip_url(re_findall(fin.html)[k])]
                   ELSE [k \in 1..Len(fin.html) |-> full_clip_url(re_search(fin.html[k]))]
            out == fout.urls
            First(u) == CHOOSE k \in 1..Len(raw) :
                            raw[k] = u /\ \A j \in 1..(k - 1) : raw[j] # u
        IN  /\ \A j, k \in 1..Len(out) : j < k => out[j] # out[k]
            /\ {out[k] : k \in 1..Len(out)} = {raw[k] : k \in 1..Len(raw)}
            /\ \A j, k \in 1..Len(out) : j < k => First(out[j]) < First(out[k])

\* C18: when a page holds two different lightbox attributes that reference
\* the same clip id and differ only in their other query parameters, before
\* or after clip=, the single-account extractor returns exactly one URL for
\* that id.
C18_OneUrlPerClipId ==
    fout.kind = "single_urls" =>
        \A c \in 1..MaxClipIds :
            (\E j, k \in 1..Len(fin.html) :
                /\ fin.html[j].id = c
                /\ fin.html[k].id = c
                /\ fin.html[j] # fin.html[k])
            => Cardinality({k \in 1..Len(fout.urls) : fout.urls[k][2] = c}) = 1

\* C19: the outcome of a download is decided by the exit of the subprocess:
\* return code 0 is a success whatever stderr holds; any other return code is
\* a failure whose reason is the first that applies of: unavailable (webpage
\* not downloadable or HTTP Error 404), cancelled (interrupted), network
\* timeout (socket timeout), reported unavailable (video unavailable), and
\* otherwise no reason, with the raw stderr as the detail.
C19_OutcomeByExitAndPrecedence ==
    fout.kind = "outcome" =>
        LET e == fin.stderr
            gone == "unable_webpage" \in e \/ "http_404" \in e
            intr == "interrupted" \in e
            tout == "socket_timeout" \in e
            vid == "video_unavailable" \in e
        IN  /\ fin.returncode = 0 =>
                fout.returned /\ fout.tag = "success" /\ fout.reason = "none"
            /\ fin.returncode # 0 =>
                /\ ~fout.returned
                /\ fout.tag = "error"
                /\ gone => fout.reason = "unavailable"
                /\ (~gone /\ intr) => fout.reason = "cancelled"
                /\ (~gone /\ ~intr /\ tout) => fout.reason = "network_timeout"
                /\ (~gone /\ ~intr /\ ~tout /\ vid) => fout.reason = "reported_unavailable"
                /\ (~gone /\ ~intr /\ ~tout /\ ~vid) =>
                       fout.reason = "none" /\ (e # {} => fout.detail)

\* a failed download whose stderr holds an HTTP 404, an interruption and a
\* timeout at once: the reason is the first of the three
C19_Witness ==
    /\ fout.kind = "outcome"
    /\ fin.returncode = 1
    /\ {"http_404", "interrupted", "socket_timeout"} \subseteq fin.stderr
    /\ fout.reason = "unavailable"
    /\ fout.detail

\* C20: among progress lines whose percentages all parse, the first is
\* reported, and a later one is reported exactly when its percentage differs
\* by at least one whole point from the percentage of the line reported last.
C20_ReportedIffMovedOnePoint ==
    (fout.kind = "progress" /\ fout.lines >= 1 /\ fout.parsedOnly) =>
        (fout.reported <=>
            \/ fout.before = Unset
            \/ fout.line - fout.before >= 10
            \/ fout.before - fout.line >= 10)

\* C21: when the output directory of an account cannot be created, the
\* failure is reported, no download is attempted for that account, the
\* orchestrator is not left by an exception, and a batch goes on to its
\* remaining accounts.
C21_DirectoryFailureAbortsAccountOnly ==
    obs.dirFailed =>
        /\ Count("dir_create_failed") >= 1
        /\ obs.launches = 0
        /\ pc # "raised"
        /\ (InBatch /\ Ended /\ ~obs.toolMissing) => idx > Len(user_data)

\* C22: the URL builder returns no URL when the account is empty or holds a
\* character that breaks the site's URL scheme ('/', '#', '?', whitespace);
\* process_request then reports the invalid account, aborts and makes no
\* scrape.
C22_InvalidAccountGetsNoUrl ==
    /\ fout.kind = "tracker_url" =>
          ((fin.username = <<>>
            \/ \E k \in 1..Len(fin.username) : fin.username[k] \in {"/", "#", "?", " "})
           => fout.url = <<>>)
    /\ (~InBatch /\ pc = "done" /\ obs.dep = "found" /\ username = "") =>
          (obs.scrapes = 0 /\ Count("invalid_username") = 1)

\* C23: for every account that is not empty and every date, the URL builder
\* returns the site, the account, '/clips#', the date, '-' and the date
\* again, each verbatim and in that order, and no other account and date give
\* the same URL.
C23_UrlEmbedsAccountAndDate ==
    (fout.kind = "tracker_url" /\ fin.username # <<>>) =>
        LET url == fout.url
            a == Len(TemplateSite)
            n == Len(fin.username)
            d == Len(fin.date_str)
        IN  /\ Len(url) = a + n + 7 + d + 1 + d
            /\ SubSeq(url, 1, a) = TemplateSite
            /\ SubSeq(url, a + 1, a + n) = fin.username
            /\ SubSeq(url, a + n + 1, a + n + 7) = TemplateClips
            /\ SubSeq(url, a + n + 8, a + n + 7 + d) = fin.date_str
            /\ url[a + n + 8 + d] = "-"
            /\ SubSeq(url, a + n + 9 + d, a + n + 8 + 2 * d) = fin.date_str
            /\ \A u \in NameTexts, dt \in DateTexts :
                  construct_tracker_url_text(u, dt) = url =>
                      (u = fin.username /\ dt = fin.date_str)

\* an account with a slash and a dash in its name
C23_Witness ==
    /\ fout.kind = "tracker_url"
    /\ fin.username = <<"/", "-">>
    /\ Len(fout.url) = 52

\* C24: when a batch has ended with its aggregate summary, after the last
\* account or after an early abort, the total of the summary is the number of
\* clips downloaded successfully in the batch, all accounts taken together.
C24_TotalIsSumOfSuccesses ==
    (InBatch /\ pc = "done" /\ sink.last = <<"total_time", "plain">>) =>
        total_downloaded_all_users = obs.succeeded

\* C25: after any sequence of add, edit and delete operations on a loaded
\* account list, no two records have the same lower-cased name, every limit
\* is a non-negative integer, and the list is sorted by name.
C25_AccountListWellFormed ==
    pc = "editing" =>
        /\ \A j, k \in 1..Len(user_data) :
              j # k => str_lower(user_data[j].username) # str_lower(user_data[k].username)
        /\ \A k \in 1..Len(user_data) : user_data[k].max_downloads \in Nat
        /\ \A j, k \in 1..Len(user_data) :
              j < k => SortKey(user_data[j].username) < SortKey(user_data[k].username)

\* a name typed with a capital was added in front of the names already listed
C25_Witness ==
    /\ pc = "editing"
    /\ fin.kind = "add"
    /\ fin.typed = "Alice"
    /\ fout.refused = "no"
    /\ Len(user_data) = 3
    /\ user_data[1].username = "alice"
    /\ user_data[1].max_downloads = 1

\* C26: the list handed to the download loop is, when the limit applies
\* (max > 0 and more than max URLs discovered), exactly the first max URLs of
\* the discovered list in discovery order, and otherwise the discovered list
\* unchanged.
C26_SelectedIsPrefix ==
    (pc = "p_dir" \/ obs.mkdirs > 0) =>
        LET found == clip_urls.urls
            applies == max_downloads > 0 /\ Len(found) > max_downloads
        IN  /\ applies => Len(urls_to_download) = max_downloads
            /\ ~applies => urls_to_download = found
            /\ \A k \in 1..Len(urls_to_download) : urls_to_download[k] = found[k]

\* a batch account with two clips on its page and a limit of one
C26_Witness ==
    /\ InBatch
    /\ pc = "b_dl"
    /\ max_downloads = 1
    /\ clip_urls.urls = <<1, 2>>
    /\ urls_to_download = <<1>>
    /\ obs.launches = 1

\* C27: the download loop launches the downloader for the URLs of the
\* selected list in list order, each once: what has been attempted is always
\* the front of the list, and the whole list when the account's summary is
\* emitted; a launch that ends in an ordinary failure (not a success, not the
\* discovery that the downloader is missing) adds one to the failed count and
\* the loop goes on with the next URL of the unchanged list.
C27_LoopAttemptsAllInOrder ==
    /\ [](/\ Len(obs.attempted) <= Len(urls_to_download)
          /\ \A k \in 1..Len(obs.attempted) : obs.attempted[k] = urls_to_download[k])
    /\ [](SummaryEmitted => obs.attempted = urls_to_download)
    /\ [][(/\ Len(obs'.attempted) > Len(obs.attempted)
           /\ obs'.succeeded = obs.succeeded
           /\ obs'.toolMissing = obs.toolMissing)
          => /\ fail_count' = fail_count + 1
             /\ download_count' = download_count
             /\ i' = i + 1
             /\ pc' = pc
             /\ urls_to_download' = urls_to_download]_vars

\* two clips selected, the first failed, the second was downloaded, and the
\* summary of the account has been emitted
C27_Witness ==
    /\ SummaryEmitted
    /\ obs.attempted = <<1, 2>>
    /\ fail_count = 1
    /\ download_count = 1
    /\ obs.succeeded = 1
    /\ InBatch

\* C28: whenever a scrape that launched a browser is over, on whatever path,
\* the browser has been told to quit; and when the teardown itself failed,
\* the failure has been reported, the scrape has returned to its caller
\* without raising, and the value returned is the one the path had decided.
C28_BrowserReleasedOnEveryPath ==
    obs.scrape.launched =>
        /\ obs.scrape.teardown # "none"
        /\ obs.scrape.teardown = "failed" =>
              /\ pc # "raised"
              /\ clip_urls = obs.scrape.result
              /\ Count("error_closing_webdriver") + Count("cannot_stop_service") >= 1

C30_NavigationTimeoutFailsScrape ==
    obs.scrape.exit = "nav_timeout" =>
        /\ ~clip_urls.ok
        /\ pc # "raised"
        /\ ~InBatch => Count("webdriver_error") >= 1
        /\ obs.history = 0
        /\ obs.launches = 0

\* ============================================================================
\* One download after another: download_clip from its call to its return
\* ============================================================================
\* fin names the implementation of download_clip that is called (the one of
\* downloader.py or the one of main_outdated.py); fout follows the calls:
\* the throttle state, the status events of the call and the value returned.

\* ClipDownloadState(): the throttle state of a call, whatever the calls
\* before it left behind
ClipDownloadState_Shared(previous) == previous

ClipDownloadState(previous) == Unset

\* output[:5] of a progress line, the key of the throttle of main_outdated.py
Heads == {"head_a", "head_b"}
NoHead == "unset"

\* the state before the first call of download_clip
FirstDownload(impl) ==
    [kind |-> "download", impl |-> impl, n |-> 1, phase |-> "called",
     last_update_percent |-> Unset, attr |-> NoHead,
     lines |-> 0, line |-> Unparseable, reported |-> FALSE,
     starts |-> 0, reports |-> 0, fallbacks |-> 0,
     terminal |-> <<>>, returned |-> "none", earlier |-> <<>>]

\* variant: download_clip returns without a status event
Return_Silent(dl, event, value) ==
    [dl EXCEPT !.phase = "returned", !.returned = value, !.attr = NoHead]

\* a return of download_clip with its status event; the finally block of
\* main_outdated.py resets the attribute of the function
Return(dl, event, value) ==
    [dl EXCEPT !.phase = "returned",
               !.terminal = Append(@, event),
               !.returned = value,
               !.attr = NoHead]

\* the "Downloading" event and subprocess.Popen
D_Popen ==
    /\ fin.kind = "downloads"
    /\ fout.phase = "called"
    /\ \E popen \in {"ok", "notfound", "exception"} :
          LET begun == [fout EXCEPT !.starts = @ + 1]
          IN  fout' = CASE popen = "ok" -> [begun EXCEPT !.phase = "reading"]
                        [] popen = "notfound" ->
                              Return(begun, "command_not_found", "False")
                        [] OTHER ->
                              Return(begun, "error_downloading", "False")
    /\ UNCHANGED <<fin, pvars, gvars>>

\* one progress line of downloader.py
D_ProgressLine ==
    /\ fin.kind = "downloads"
    /\ fin.impl = "downloader"
    /\ fout.phase = "reading"
    /\ fout.lines < MaxLines
    /\ \E p \in Percents \cup {Unparseable} :
          LET last == fout.last_update_percent
              rep == IF p = Unparseable THEN ReportsFallback(last)
                     ELSE ReportsParsed(last, p)
          IN  fout' = [fout EXCEPT
                         !.last_update_percent =
                             IF ~rep THEN last
                             ELSE IF p = Unparseable THEN Fallback ELSE p,
                         !.lines = @ + 1,
                         !.line = p,
                         !.reported = rep,
                         !.reports = IF rep THEN @ + 1 ELSE @,
                         !.fallbacks = IF rep /\ p = Unparseable THEN @ + 1 ELSE @]
    /\ UNCHANGED <<fin, pvars, gvars>>

\* one progress line of main_outdated.py
D_OutdatedProgressLine ==
    /\ fin.kind = "downloads"
    /\ fin.impl = "main_outdated"
    /\ fout.phase = "reading"
    /\ fout.lines < MaxLines
    /\ \E head \in Heads :
          LET rep == fout.attr # head
          IN  fout' = [fout EXCEPT
                         !.attr = head,
                         !.lines = @ + 1,
                         !.reported = rep,
                         !.reports = IF rep THEN @ + 1 ELSE @]
    /\ UNCHANGED <<fin, pvars, gvars>>

\* reading the output of the downloader raises
D_ReadRaises ==
    /\ fin.kind = "downloads"
    /\ fout.phase = "reading"
    /\ fout' = Return(fout, "error_downloading", "False")
    /\ UNCHANGED <<fin, pvars, gvars>>

\* the downloader exits and download_clip returns
D_Exit ==
    /\ fin.kind = "downloads"
    /\ fout.phase = "reading"
    /\ \E rc \in {0, 1}, e \in {{}, StderrTexts} :
          LET o == DownloadOutcome(rc, e)
          IN  fout' = Return(fout, IF o.tag = "success" THEN "downloaded"
                                   ELSE "ytdlp_failed",
                             IF o.returned THEN "True" ELSE "False")
    /\ UNCHANGED <<fin, pvars, gvars>>

\* the next call of download_clip
D_NextDownload ==
    /\ fin.kind = "downloads"
    /\ fout.phase = "returned"
    /\ fout.n < MaxDownloads
    /\ fout' = [FirstDownload(fin.impl) EXCEPT
                  !.n = fout.n + 1,
                  !.last_update_percent =
                      ClipDownloadState(fout.last_update_percent),
                  !.attr = fout.attr,
                  !.earlier = fout.terminal]
    /\ UNCHANGED <<fin, pvars, gvars>>

DlInit ==
    /\ ProgramParked
    /\ GuiParked
    /\ fin \in {[kind |-> "downloads", impl |-> impl] :
                   impl \in {"downloader", "main_outdated"}}
    /\ fout = FirstDownload(fin.impl)

DlNext ==
    \/ D_Popen
    \/ D_ProgressLine
    \/ D_OutdatedProgressLine
    \/ D_ReadRaises
    \/ D_Exit
    \/ D_NextDownload

DlSpec == DlInit /\ [][DlNext]_vars

\* a call of download_clip that has returned
Returned == fout.kind = "download" /\ fout.phase = "returned"

\* C31: a progress line whose percentage cannot be parsed leaves the download
\* running with no outcome decided; a download shows at most one such line, and
\* shows none once a progress line of that download has been shown
C31_UnparsedLineIsHarmless ==
    [][(/\ fout.kind = "download"
        /\ fout'.kind = "download"
        /\ fout'.lines = fout.lines + 1
        /\ fout'.impl = "downloader"
        /\ fout'.line = Unparseable)
       => /\ fout'.phase = "reading"
          /\ fout'.terminal = <<>>
          /\ fout'.returned = "none"
          /\ fout'.fallbacks <= 1
          /\ (fout'.reported => fout.reports = 0)]_vars

\* an unparsed line that is passed over after a progress report, in a download
\* that has already shown its one unparsed line
C31_Witness ==
    /\ fout.kind = "download"
    /\ fout.impl = "downloader"
    /\ fout.line = Unparseable
    /\ ~fout.reported
    /\ fout.fallbacks = 1
    /\ fout.reports = 2
    /\ fout.phase = "reading"

\* C32: every call of download_clip starts with the throttle unset, so its
\* first progress line is shown whatever the calls before it showed and
\* however they ended
C32_ThrottleOwnedByCall ==
    fout.kind = "download" =>
        /\ (fout.phase \in {"called", "reading"} /\ fout.lines = 0) =>
               (fout.last_update_percent = Unset /\ fout.attr = NoHead)
        /\ (fout.lines = 1 => fout.reported)

\* the first line of a second download is shown after a first download that
\* failed
C32_Witness ==
    /\ fout.kind = "download"
    /\ fout.n = 2
    /\ fout.lines = 1
    /\ fout.reported
    /\ fout.earlier = <<"ytdlp_failed">>

\* C33: a call of download_clip that has returned has sent one "Downloading"
\* event and one outcome event, and has returned True with the success event
\* and False with an error event; before its return it has sent no outcome
C33_OneStartOneOutcome ==
    fout.kind = "download" =>
        /\ fout.starts <= 1
        /\ Len(fout.terminal) <= 1
        /\ fout.phase = "reading" => (fout.starts = 1 /\ fout.terminal = <<>>)
        /\ Returned =>
              /\ fout.starts = 1
              /\ Len(fout.terminal) = 1
              /\ fout.returned \in {"True", "False"}
              /\ (fout.returned = "True") = (fout.terminal = <<"downloaded">>)

\* a call that returned False after reading raised
C33_Witness ==
    /\ Returned
    /\ fout.lines >= 1
    /\ fout.terminal = <<"error_downloading">>
    /\ fout.returned = "False"

\* C34: when the page source of a single-account scrape holds the text
\* "Channel not found", one event of severity error says so, which a scrape of
\* a page without that text never sends, and the scrape returns a list
C34_ChannelNotFoundIsDistinct ==
    (pc = "p_scraped" /\ ~InBatch) =>
        /\ obs.scrape.marker = "channel_not_found" =>
              (Count("channel_not_found") = 1 /\ clip_urls.ok)
        /\ obs.scrape.marker # "channel_not_found" =>
              Count("channel_not_found") = 0

\* a page that holds the text and no clip
C34_Witness ==
    /\ pc = "p_scraped"
    /\ ~InBatch
    /\ obs.scrape.marker = "channel_not_found"
    /\ obs.scrape.raw = <<>>
    /\ clip_urls = List(<<>>)
    /\ Count("channel_not_found") = 1

\* C35: no URL returned by the extractor holds an escaped ampersand, and every
\* URL is the base URL followed by the identifier with its ampersand decoded
C35_EntitiesDecoded ==
    fout.kind = "single_urls" =>
        \A j \in 1..Len(fout.texts) :
            LET t == fout.texts[j]
            IN  /\ t[1] = "https://clips.twitch.tv/"
                /\ \A k \in 1..(Len(t) - 4) : SubSeq(t, k, k + 4) # EscapedAmpersand
                /\ fout.urls[j][3] => (Len(t) = 4 /\ t[3] = "&")

\* ============================================================================
\* The username history of the single-account application
\* ============================================================================
\* A username is a name with or without blanks around it.  fin is parked at
\* the kind "history"; fout holds self.username_history, the content of the
\* history file and what the last call of _persist_username did.

HistoryNames == {"alice", "Alice", "bob", "Bob"}
Usernames == [name : HistoryNames \cup {""}, pad : BOOLEAN]

\* str.strip() and str.lower()
str_strip(u) == [u EXCEPT !.pad = FALSE]
lower(u) == [u EXCEPT !.name = str_lower(@)]

\* `not username or not username.strip()`
IsBlank(u) == u.name = ""

\* the filter of save_username_history and load_username_history: blank items
\* are dropped and of the items equal in lower case the first is kept
unique_history(history) ==
    LET keep(k) == /\ ~IsBlank(history[k])
                   /\ \A j \in 1..(k - 1) : lower(history[j]) # lower(history[k])
        F[k \in 0..Len(history)] ==
            IF k = 0 THEN <<>>
            ELSE IF keep(k) THEN Append(F[k - 1], history[k]) ELSE F[k - 1]
    IN  F[Len(history)]

\* variant: the username is added without removing the entries it equals
add_username_to_history_KeepOld(u, history) ==
    IF IsBlank(u) THEN history
    ELSE <<str_strip(u)>> \o history

\* add_username_to_history(u, history)
add_username_to_history(u, history) ==
    IF IsBlank(u) THEN history
    ELSE LET uname_cleaned == str_strip(u)
             uname_lower == lower(uname_cleaned)
             Other(entry) == lower(entry) # uname_lower
         IN  <<uname_cleaned>> \o SelectSeq(history, Other)

\* what save_username_history can do: write the file, fail with an IOError,
\* which it catches itself, or fail with another exception, which it lets pass
SaveOutcomes == {"written", "ioerror", "raises"}

\* the histories load_username_history returns
LoadedHistories ==
    {h \in UNION {[1..n -> [name : HistoryNames, pad : {FALSE}]] : n \in 0..2} :
        unique_history(h) = h}

\* _persist_username(username), run in the GUI thread
H_Persist ==
    /\ fin.kind = "history"
    /\ fout.calls < MaxPersists
    /\ \E typed \in Usernames, save \in SaveOutcomes :
          LET original_history == fout.username_history
              updated_history == add_username_to_history(typed, original_history)
          IN  fout' =
                IF typed = [name |-> "", pad |-> FALSE]
                THEN [fout EXCEPT !.calls = @ + 1, !.username = typed,
                                  !.before = original_history,
                                  !.updated_history = original_history,
                                  !.save = "none", !.events = <<>>]
                ELSE [kind |-> "history",
                      calls |-> fout.calls + 1,
                      username |-> typed,
                      before |-> original_history,
                      updated_history |-> updated_history,
                      save |-> save,
                      username_history |-> IF save = "raises" THEN original_history
                                           ELSE updated_history,
                      file |-> IF save = "written" THEN unique_history(updated_history)
                               ELSE fout.file,
                      events |-> IF save = "raises"
                                 THEN << <<"error_saving_history", "error">> >>
                                 ELSE << <<"saved_to_history", "info">> >>]
    /\ UNCHANGED <<fin, pvars, gvars>>

HistInit ==
    /\ ProgramParked
    /\ GuiParked
    /\ fin = [kind |-> "history"]
    /\ \E h \in LoadedHistories :
          fout = [kind |-> "history", calls |-> 0,
                  username |-> [name |-> "", pad |-> FALSE],
                  before |-> h, updated_history |-> h, save |-> "none",
                  username_history |-> h, file |-> h, events |-> <<>>]

HistNext == H_Persist

HistSpec == HistInit /\ [][HistNext]_vars

C37_FailedPersistLeavesHistory ==
    (fout.kind = "history" /\ fout.save \in {"ioerror", "raises"}) =>
        /\ fout.username_history = fout.before
        /\ fout.events = << <<"error_saving_history", "error">> >>

\* C38: while the busy flag is clear no status message of a worker waits to be
\* delivered, and in the single-account application the status area, cleared
\* at the start of a run, holds worker messages of that run only
C38_NoLateWorkerMessage ==
    /\ ~is_processing =>
          \A k \in 1..Len(tkq) : ~(tkq[k].fn = "status" /\ tkq[k].from = "worker")
    /\ app = "single" =>
          \A j \in 1..Len(status_text) :
              status_text[j][1] = "worker" => status_text[j][2] = started

\* the busy flag is clear again after a second run whose worker was left by
\* an exception, and the two messages about it are in the status area
C38_Witness ==
    /\ app = "single"
    /\ started = 2
    /\ ~is_processing
    /\ wk[2].at = "ended"
    /\ gobs.raised
    /\ \E j \in 1..Len(status_text) :
          /\ status_text[j][1] = "worker"
          /\ status_text[j][2] = 2
          /\ status_text[j][3] >= 2

\* ============================================================================
\* The account list while a batch runs
\* ============================================================================
\* user_data is self.user_data of the batch application.  fout follows one
\* batch: the list handed to the thread, the position of the loop of
\* run_download_process in it and the accounts the loop has read, each with
\* its limit.  The three handlers of the list have no guard of their own
\* against a running batch (set_ui_state disables the buttons and the entry
\* fields, the double click on the tree stays bound to handle_edit_selected).

\* variant: the thread is given self.user_data itself
thread_args_Shared(copy, current) == current

\* start_download_thread: [u.copy() for u in self.user_data] is what the
\* thread gets, whatever self.user_data becomes afterwards
thread_args(copy, current) == copy

\* the batch before start_download_thread
NoBatch ==
    [kind |-> "batch", is_downloading |-> FALSE, at |-> "idle",
     atStart |-> <<>>, user_data_copy |-> <<>>, idx |-> 0, processed |-> <<>>,
     edits |-> 0, midEdits |-> 0]

\* an edit of the list made while the batch runs
Edited(b) ==
    [b EXCEPT !.edits = @ + 1,
              !.midEdits = IF b.idx > 0 /\ b.idx < Len(b.atStart) THEN @ + 1 ELSE @]

\* start_download_thread, confirmed
S_Start ==
    /\ fin.kind = "batch"
    /\ ~fout.is_downloading
    /\ fout.at = "idle"
    /\ user_data # <<>>
    /\ fout' = [fout EXCEPT !.is_downloading = TRUE, !.at = "loop",
                            !.atStart = user_data,
                            !.user_data_copy = user_data]
    /\ UNCHANGED <<fin, user_data, EditFrame, gvars>>

\* one iteration of the loop of run_download_process: the account and its
\* limit are read from the list the thread was given
S_ProcessUser ==
    /\ fin.kind = "batch"
    /\ fout.at = "loop"
    /\ LET user_data_to_process == thread_args(fout.user_data_copy, user_data)
       IN  IF fout.idx < Len(user_data_to_process)
           THEN \E critical \in BOOLEAN :
                  fout' = [fout EXCEPT
                             !.idx = @ + 1,
                             !.processed =
                                 Append(@, user_data_to_process[fout.idx + 1]),
                             !.at = IF critical THEN "left" ELSE "loop"]
           ELSE fout' = [fout EXCEPT !.at = "finished"]
    /\ UNCHANGED <<fin, user_data, EditFrame, gvars>>

\* on_download_complete
S_Complete ==
    /\ fin.kind = "batch"
    /\ fout.at \in {"left", "finished"}
    /\ fout.is_downloading
    /\ fout' = [fout EXCEPT !.is_downloading = FALSE]
    /\ UNCHANGED <<fin, user_data, EditFrame, gvars>>

\* handle_add while the batch runs, with a name and a limit that are accepted
S_Add ==
    /\ fin.kind = "batch"
    /\ fout.is_downloading
    /\ fout.edits < MaxEdits
    /\ \E typed \in TypedNames, max \in 0..MaxLimit :
          LET new_username == str_lower(typed)
          IN  /\ new_username # ""
              /\ re_match_username(new_username)
              /\ ~already_exists(user_data, new_username)
              /\ user_data' = sort_by_username(
                                  Append(user_data, [username |-> new_username,
                                                     max_downloads |-> max]))
    /\ fout' = Edited(fout)
    /\ UNCHANGED <<fin, EditFrame, gvars>>

\* handle_edit_selected while the batch runs, with one account selected and
\* both dialogs answered
S_Edit ==
    /\ fin.kind = "batch"
    /\ fout.is_downloading
    /\ fout.edits < MaxEdits
    /\ \E at \in 1..Len(user_data), typed \in TypedNames,
          new_max_downloads \in 0..MaxLimit :
          LET old_username == user_data[at].username
              new_username == str_lower(typed)
              username_changed == new_username # old_username
              edited == [user_data EXCEPT
                            ![at] = [username |-> new_username,
                                     max_downloads |-> new_max_downloads]]
          IN  /\ new_username # ""
              /\ re_match_username(new_username)
              /\ ~(username_changed /\ already_exists(user_data, new_username))
              /\ username_changed \/ new_max_downloads # user_data[at].max_downloads
              /\ user_data' = IF username_changed THEN sort_by_username(edited)
                              ELSE edited
    /\ fout' = Edited(fout)
    /\ UNCHANGED <<fin, EditFrame, gvars>>

\* handle_delete_selected while the batch runs, confirmed
S_Delete ==
    /\ fin.kind = "batch"
    /\ fout.is_downloading
    /\ fout.edits < MaxEdits
    /\ \E sel \in SUBSET ListedNames(user_data) :
          /\ sel # {}
          /\ user_data' = SelectSeq(user_data, LAMBDA u : u.username \notin sel)
    /\ fout' = Edited(fout)
    /\ UNCHANGED <<fin, EditFrame, gvars>>

SnapInit ==
    /\ pc = "editing"
    /\ user_data \in UserLists
    /\ username = ""
    /\ max_downloads = 0
    /\ idx = 0
    /\ clip_urls = List(<<>>)
    /\ urls_to_download = <<>>
    /\ limit_applied = FALSE
    /\ i = 0
    /\ download_count = 0
    /\ fail_count = 0
    /\ total_downloaded_all_users = 0
    /\ sink = EmptySink
    /\ obs = NoCalls
    /\ GuiParked
    /\ fin = [kind |-> "batch"]
    /\ fout = NoBatch

SnapNext ==
    \/ S_Start
    \/ S_ProcessUser
    \/ S_Complete
    \/ S_Add
    \/ S_Edit
    \/ S_Delete

SnapSpec == SnapInit /\ [][SnapNext]_vars

\* C39: the accounts a batch has read, with their limits, are the first
\* accounts of the list as it was when the batch was started, in that order,
\* and all of them once the loop has run to its end, whatever was added to,
\* edited in or deleted from the list since
C39_BatchProcessesSnapshot ==
    fout.kind = "batch" =>
        /\ fout.idx <= Len(fout.atStart)
        /\ fout.processed = SubSeq(fout.atStart, 1, fout.idx)
        /\ fout.at = "finished" => fout.processed = fout.atStart

\* a batch of three accounts has run to its end although the second account
\* was edited in the list while the first was being processed
C39_Witness ==
    /\ fout.kind = "batch"
    /\ fout.at = "finished"
    /\ ~fout.is_downloading
    /\ fout.midEdits >= 1
    /\ Len(fout.atStart) = 3
    /\ Len(user_data) = 3
    /\ user_data[2] # fout.atStart[2]
    /\ fout.processed = fout.atStart

====
